---- MODULE Spec2Model ----
(***************************************************************************)
(* literature-match: resolution of free-text references against a          *)
(* reference-manager library (scripts/match_pipeline.py), and the merge of *)
(* externally supplied decisions (scripts/apply_llm_decisions.py).         *)
(*                                                                         *)
(* Python strings are sequences of one-character strings, so that strip(), *)
(* lower(), prefix removal and the regular expressions are computed and    *)
(* not assumed.  Python None is the value None below; it differs from the  *)
(* empty string <<>>.  Floats are fixed-point integers in hundredths       *)
(* (0.99 is 99); the rounding of binary floating point is not modelled.    *)
(***************************************************************************)
EXTENDS Integers, Sequences, FiniteSets, TLC

None == <<"<None>">>

(***************************************************************************)
(* Characters and the str methods the code uses.                           *)
(***************************************************************************)
UpperChars == <<"A","B","C","D","E","F","G","H","I","J","K","L","M",
                "N","O","P","Q","R","S","T","U","V","W","X","Y","Z">>
LowerChars == <<"a","b","c","d","e","f","g","h","i","j","k","l","m",
                "n","o","p","q","r","s","t","u","v","w","x","y","z">>
DigitChars == <<"0","1","2","3","4","5","6","7","8","9">>

\* the characters of the model in code-point order (str comparison)
CodePoints == <<"\n", " ", "(", ")", "+", ",", "-", ".", "/">> \o DigitChars
              \o <<":", ";", "<", ">">> \o UpperChars \o <<"[", "]", "_">>
              \o LowerChars \o <<"{", "}">>

\* ord(c), up to the order it induces
ord(c) == CHOOSE i \in DOMAIN CodePoints : CodePoints[i] = c

Whitespace == {" ", "\n"}

\* \d and \w of the regular expressions
is_digit(c) == \E i \in DOMAIN DigitChars : DigitChars[i] = c

is_word(c) ==
    \/ is_digit(c)
    \/ c = "_"
    \/ \E i \in DOMAIN UpperChars : UpperChars[i] = c \/ LowerChars[i] = c

\* c.lower()
lower_char(c) ==
    IF \E i \in DOMAIN UpperChars : UpperChars[i] = c
    THEN LowerChars[CHOOSE i \in DOMAIN UpperChars : UpperChars[i] = c]
    ELSE c

\* str.lower()
lower(s) == [i \in DOMAIN s |-> lower_char(s[i])]

\* s[n:]
drop(s, n) == SubSeq(s, n + 1, Len(s))

RECURSIVE lstrip(_, _)
\* str.lstrip(chars)
lstrip(s, chars) ==
    IF s # <<>> /\ Head(s) \in chars THEN lstrip(Tail(s), chars) ELSE s

RECURSIVE rstrip(_, _)
\* str.rstrip(chars)
rstrip(s, chars) ==
    IF s # <<>> /\ s[Len(s)] \in chars
    THEN rstrip(SubSeq(s, 1, Len(s) - 1), chars)
    ELSE s

\* str.strip(chars); strip() with no argument is strip(s, Whitespace)
strip(s, chars) == rstrip(lstrip(s, chars), chars)

\* str.startswith(prefix)
startswith(s, prefix) ==
    Len(s) >= Len(prefix) /\ SubSeq(s, 1, Len(prefix)) = prefix

\* needle in hay
contains(hay, needle) ==
    \E i \in 0..(Len(hay) - Len(needle)) :
        SubSeq(hay, i + 1, i + Len(needle)) = needle

RECURSIVE join(_, _)
\* sep.join(parts)
join(sep, parts) ==
    IF parts = <<>> THEN <<>>
    ELSE IF Len(parts) = 1 THEN parts[1]
    ELSE parts[1] \o sep \o join(sep, Tail(parts))

RECURSIVE str_less(_, _)
\* a < b on str (code-point lexicographic order)
str_less(a, b) ==
    IF b = <<>> THEN FALSE
    ELSE IF a = <<>> THEN TRUE
    ELSE IF a[1] # b[1] THEN ord(a[1]) < ord(b[1])
    ELSE str_less(Tail(a), Tail(b))

\* Python truthiness of an optional string
truthy(s) == s # None /\ s # <<>>

\* x or ""
or_empty(s) == IF truthy(s) THEN s ELSE <<>>

\* x or None
or_none(s) == IF truthy(s) THEN s ELSE None

\* a or b, on optional strings
py_or(a, b) == IF truthy(a) THEN a ELSE b

(***************************************************************************)
(* scripts/normalize.py                                                    *)
(***************************************************************************)
DoiPunct == {".", ",", ";", ":", "(", ")", "[", "]", "{", "}", "<", ">"}

DoiPrefixes == << <<"h","t","t","p","s",":","/","/","d","o","i",".","o","r","g","/">>,
                  <<"h","t","t","p",":","/","/","d","o","i",".","o","r","g","/">>,
                  <<"d","o","i",":">>,
                  <<"d","o","i"," ">> >>

RECURSIVE strip_first_prefix(_, _, _)
\* for prefix in prefixes: if text.startswith(prefix): text = after(text[len(prefix):]); break
\* after = 1 strips whitespace from the remainder, after = 0 leaves it
strip_first_prefix(text, prefixes, after) ==
    IF prefixes = <<>> THEN text
    ELSE IF startswith(text, Head(prefixes))
         THEN IF after = 1
              THEN strip(drop(text, Len(Head(prefixes))), Whitespace)
              ELSE drop(text, Len(Head(prefixes)))
         ELSE strip_first_prefix(text, Tail(prefixes), after)

normalize_doi(raw) ==
    IF raw = None \/ strip(raw, Whitespace) = <<>> THEN None
    ELSE strip(strip(strip_first_prefix(lower(strip(raw, Whitespace)), DoiPrefixes, 1),
                     Whitespace), DoiPunct)

UrlPrefixes == << <<"h","t","t","p","s",":","/","/">>,
                  <<"h","t","t","p",":","/","/">> >>

\* if text.startswith("www."): text = text[4:]
drop_www(text) == IF startswith(text, <<"w","w","w",".">>) THEN drop(text, 4) ELSE text

normalize_url(raw) ==
    IF raw = None \/ strip(raw, Whitespace) = <<>> THEN None
    ELSE rstrip(drop_www(strip_first_prefix(
                    lower(strip(strip(strip(raw, Whitespace), Whitespace), DoiPunct)),
                    UrlPrefixes, 0)),
                {"/"})

\* \b at position i: between s[i-1] and s[i]
word_boundary(s, i) ==
    LET before == i - 1 \in DOMAIN s /\ is_word(s[i - 1])
        after == i \in DOMAIN s /\ is_word(s[i])
    IN  before # after

all_digits(s, from, n) ==
    \A k \in from..(from + n - 1) : k \in DOMAIN s /\ is_digit(s[k])

RECURSIVE digit_run_end(_, _)
\* first position at or after p that holds no digit (\d+ taken greedily)
digit_run_end(s, p) ==
    IF p \in DOMAIN s /\ is_digit(s[p]) THEN digit_run_end(s, p + 1) ELSE p

\* (?:v\d+)?\b at position p, the digits after the v ending before e
arxiv_tail(s, p, e) ==
    \/ p \in DOMAIN s /\ lower_char(s[p]) = "v" /\ e > p + 1 /\ word_boundary(s, e)
    \/ word_boundary(s, p)

\* (\d{4}\.\d{n})(?:v\d+)?\b matched at j: the end of group 1, or 0
arxiv_core(s, j, n) ==
    IF all_digits(s, j, 4) /\ j + 4 \in DOMAIN s /\ s[j + 4] = "."
       /\ all_digits(s, j + 5, n)
       /\ arxiv_tail(s, j + 5 + n, digit_run_end(s, j + 6 + n))
    THEN j + 4 + n ELSE 0

\* group 1 of a match at j that ends at e5 (\d{5}) or else at e4 (\d{4})
arxiv_group(s, j, e5, e4) ==
    IF e5 # 0 THEN SubSeq(s, j, e5)
    ELSE IF e4 # 0 THEN SubSeq(s, j, e4)
    ELSE None

\* (\d{4}\.\d{4,5})(?:v\d+)?\b matched at j: group 1, or None
arxiv_at(s, j) == arxiv_group(s, j, arxiv_core(s, j, 5), arxiv_core(s, j, 4))

\* ARXIV_PATTERN matched at start position i: group 1, or None
arxiv_match_at(s, i) ==
    IF ~word_boundary(s, i) THEN None
    ELSE py_or(IF i + 5 <= Len(s)
                  /\ lower(SubSeq(s, i, i + 5)) = <<"a","r","x","i","v",":">>
               THEN arxiv_at(s, i + 6) ELSE None,
               arxiv_at(s, i))

RECURSIVE arxiv_search(_, _)
arxiv_search(s, i) ==
    IF i > Len(s) THEN None
    ELSE py_or(arxiv_match_at(s, i), arxiv_search(s, i + 1))

extract_arxiv_id(text) ==
    IF ~truthy(text) THEN None ELSE arxiv_search(text, 1)

\* the characters after 10.dddd/ in DOI_PATTERN, which ignores case
DoiChars ==
    {"-", ".", "_", ";", "(", ")", "/", ":"}
        \cup {UpperChars[i] : i \in DOMAIN UpperChars}
        \cup {LowerChars[i] : i \in DOMAIN LowerChars}
        \cup {DigitChars[i] : i \in DOMAIN DigitChars}

\* the characters that end a URL in URL_PATTERN
UrlStops == Whitespace \cup {")", "]", "}", ">", ",", ";"}

RECURSIVE run_end(_, _, _, _)
\* first position at or after p whose character is not in the class (a class
\* is the set chars when member, its complement otherwise), taken greedily
run_end(s, p, chars, member) ==
    IF p \in DOMAIN s /\ ((s[p] \in chars) = member)
    THEN run_end(s, p + 1, chars, member) ELSE p

\* 10\.\d{4,9}/[...]+ from position i, the digits ending before d: the
\* position after the match, or 0
doi_end_from(s, i, d) ==
    IF d - (i + 3) >= 4 /\ d - (i + 3) <= 9 /\ d \in DOMAIN s /\ s[d] = "/"
       /\ run_end(s, d + 1, DoiChars, TRUE) > d + 1
    THEN run_end(s, d + 1, DoiChars, TRUE) ELSE 0

\* DOI_PATTERN matched at position i: the position after the match, or 0
doi_match_end(s, i) ==
    IF i + 2 \in DOMAIN s /\ SubSeq(s, i, i + 2) = <<"1","0",".">>
    THEN doi_end_from(s, i, digit_run_end(s, i + 3)) ELSE 0

\* [^...]+ from position p: the position after the run, or 0 for an empty run
url_run_end(s, p) ==
    IF run_end(s, p, UrlStops, FALSE) > p THEN run_end(s, p, UrlStops, FALSE) ELSE 0

\* URL_PATTERN matched at position i: the position after the match, or 0
url_match_end(s, i) ==
    IF i + 6 <= Len(s) /\ lower(SubSeq(s, i, i + 6)) = UrlPrefixes[2]
    THEN url_run_end(s, i + 7)
    ELSE IF i + 7 <= Len(s) /\ lower(SubSeq(s, i, i + 7)) = UrlPrefixes[1]
    THEN url_run_end(s, i + 8)
    ELSE 0

\* (?:v\d+)?\b at position p, the digits after the v ending before e: the
\* position after it, or 0
arxiv_tail_end(s, p, e) ==
    IF p \in DOMAIN s /\ lower_char(s[p]) = "v" /\ e > p + 1 /\ word_boundary(s, e)
    THEN e
    ELSE IF word_boundary(s, p) THEN p ELSE 0

\* (\d{4}\.\d{n})(?:v\d+)?\b matched at j: the position after the match, or 0
arxiv_core_end(s, j, n) ==
    IF all_digits(s, j, 4) /\ j + 4 \in DOMAIN s /\ s[j + 4] = "."
       /\ all_digits(s, j + 5, n)
    THEN arxiv_tail_end(s, j + 5 + n, digit_run_end(s, j + 6 + n))
    ELSE 0

arxiv_end_at(s, j) ==
    IF arxiv_core_end(s, j, 5) # 0 THEN arxiv_core_end(s, j, 5)
    ELSE arxiv_core_end(s, j, 4)

\* ARXIV_PATTERN matched at position i: the position after the match, or 0
arxiv_match_end(s, i) ==
    IF ~word_boundary(s, i) THEN 0
    ELSE IF i + 5 <= Len(s) /\ lower(SubSeq(s, i, i + 5)) = <<"a","r","x","i","v",":">>
            /\ arxiv_end_at(s, i + 6) # 0
    THEN arxiv_end_at(s, i + 6)
    ELSE arxiv_end_at(s, i)

\* the pattern named kind matched at position i: the position after the
\* match, or 0
match_end(kind, s, i) ==
    IF kind = "url" THEN url_match_end(s, i)
    ELSE IF kind = "doi" THEN doi_match_end(s, i)
    ELSE arxiv_match_end(s, i)

RECURSIVE search(_, _, _)
\* pattern.search(s) from position i: <<start, end>> of the first match, <<>> for none
search(kind, s, i) ==
    IF i > Len(s) THEN <<>>
    ELSE IF match_end(kind, s, i) # 0 THEN <<i, match_end(kind, s, i)>>
    ELSE search(kind, s, i + 1)

\* match.group(1).rstrip(").,;]") of the match m, None for no match
group_rstrip(s, m) ==
    IF m = <<>> THEN None ELSE rstrip(SubSeq(s, m[1], m[2] - 1), {")", ".", ",", ";", "]"})

extract_first_url(text) ==
    IF ~truthy(text) THEN None ELSE group_rstrip(text, search("url", text, 1))

extract_doi(text) ==
    IF ~truthy(text) THEN None ELSE group_rstrip(text, search("doi", text, 1))

RECURSIVE finditer(_, _, _)
\* pattern.finditer(s) from position i: the set of <<start, end>> of the matches
finditer(kind, s, i) ==
    IF i > Len(s) THEN {}
    ELSE IF match_end(kind, s, i) # 0
    THEN {<<i, match_end(kind, s, i)>>} \cup finditer(kind, s, match_end(kind, s, i))
    ELSE finditer(kind, s, i + 1)

(***************************************************************************)
(* scripts/bbt_library.py                                                  *)
(*                                                                         *)
(* A library item is a record                                              *)
(*   [citationKey, itemKey, title, date, DOI, url, extra, creators]        *)
(* with None for a key the item lacks; creators is a sequence of           *)
(* [creatorType, lastName, firstName].  tags and attachments are copied    *)
(* through unchanged by the code and are left out.                         *)
(***************************************************************************)
\* YEAR pattern \b(19\d{2}|20\d{2})\b matched at position i
year_match_at(s, i) ==
    /\ i + 3 \in DOMAIN s
    /\ (SubSeq(s, i, i + 1) = <<"1","9">> \/ SubSeq(s, i, i + 1) = <<"2","0">>)
    /\ all_digits(s, i + 2, 2)
    /\ word_boundary(s, i)
    /\ word_boundary(s, i + 4)

RECURSIVE year_search(_, _)
year_search(s, i) ==
    IF i > Len(s) THEN None
    ELSE IF year_match_at(s, i) THEN SubSeq(s, i, i + 3)
    ELSE year_search(s, i + 1)

_extract_year(value) ==
    IF value = None THEN None ELSE year_search(value, 1)

\* normalize.extract_year.  A span is <<start, end>>, end being the position
\* after the match.
ignore_spans(text) ==
    finditer("url", text, 1) \cup finditer("doi", text, 1) \cup finditer("arxiv", text, 1)

\* is_ignored(start, end) for the year at position i
is_ignored(spans, i) ==
    \E m \in spans : i < m[2] /\ i + 4 > m[1]

AccessWords == { <<"a","c","c","e","s","s","e","d">>,
                 <<"r","e","t","r","i","e","v","e","d">>,
                 <<"v","i","s","i","t","e","d">> }

\* ACCESS_YEAR_CONTEXT_PATTERN matched at position i of window
access_match_at(window, i) ==
    /\ word_boundary(window, i)
    /\ \E w \in AccessWords :
           /\ i + Len(w) - 1 <= Len(window)
           /\ lower(SubSeq(window, i, i + Len(w) - 1)) = w
           /\ word_boundary(window, i + Len(w))

\* the largest element of a non-empty set of positions
rightmost(S) == CHOOSE x \in S : \A y \in S : y <= x

\* (len(window) - last.start()) <= 50, starts being the starts of the matches
access_near(window, starts) ==
    starts # {} /\ Len(window) - (rightmost(starts) - 1) <= 50

\* is_access_year(start) for the year at position i
is_access_year(text, i) ==
    access_near(SubSeq(text, IF i - 80 > 1 THEN i - 80 ELSE 1, i - 1),
                {j \in 1..(i - 1) :
                    access_match_at(SubSeq(text, IF i - 80 > 1 THEN i - 80 ELSE 1, i - 1), j)})

RECURSIVE skip_back(_, _)
\* i = start - 1; while i >= 0 and text[i].isspace(): i -= 1
skip_back(text, i) ==
    IF i \in DOMAIN text /\ text[i] \in Whitespace THEN skip_back(text, i - 1) ELSE i

\* in_parentheses(start, end) for the year at position i
in_parentheses(text, i) ==
    /\ skip_back(text, i - 1) \in DOMAIN text
    /\ run_end(text, i + 4, Whitespace, TRUE) \in DOMAIN text
    /\ text[skip_back(text, i - 1)] = "("
    /\ text[run_end(text, i + 4, Whitespace, TRUE)] = ")"

\* the year the lists non_access and paren give: the rightmost in
\* parentheses, or else the rightmost
pick_year(text, non_access, paren) ==
    IF non_access = {} THEN None
    ELSE IF paren # {} THEN SubSeq(text, rightmost(paren), rightmost(paren) + 3)
    ELSE SubSeq(text, rightmost(non_access), rightmost(non_access) + 3)

\* extract_year once the positions of the years outside the spans are known
year_among(text, candidates) ==
    pick_year(text,
              {i \in candidates : ~is_access_year(text, i)},
              {i \in candidates : ~is_access_year(text, i) /\ in_parentheses(text, i)})

year_candidates(text, spans) ==
    {i \in DOMAIN text : year_match_at(text, i) /\ ~is_ignored(spans, i)}

extract_year(text) ==
    IF ~truthy(text) THEN None
    ELSE year_among(text, year_candidates(text, ignore_spans(text)))


\* the name of one creator as a list of at most one string
creator_name(last, first) ==
    IF last # <<>> /\ first # <<>> THEN <<last \o <<",", " ">> \o first>>
    ELSE IF last # <<>> THEN <<last>>
    ELSE IF first # <<>> THEN <<first>>
    ELSE <<>>

RECURSIVE _format_creators(_)
_format_creators(creators) ==
    IF creators = <<>> THEN <<>>
    ELSE (IF lower(or_empty(Head(creators).creatorType))
                 \notin {<<"a","u","t","h","o","r">>, <<>>}
          THEN <<>>
          ELSE creator_name(strip(or_empty(Head(creators).lastName), Whitespace),
                            strip(or_empty(Head(creators).firstName), Whitespace)))
         \o _format_creators(Tail(creators))

NoSummary == [citekey |-> None]

summarize_item(item) ==
    IF item.citationKey = None \/ strip(item.citationKey, Whitespace) = <<>>
    THEN NoSummary
    ELSE [citekey |-> item.citationKey,
          itemKey |-> or_empty(item.itemKey),
          title |-> strip(or_empty(item.title), Whitespace),
          year |-> _extract_year(item.date),
          authors |-> _format_creators(item.creators),
          doi |-> or_none(strip(or_empty(item.DOI), Whitespace)),
          url |-> or_none(strip(or_empty(item.url), Whitespace))]

\* A dict is a sequence of [key, val] in insertion order.
dict_has(d, key) == \E i \in DOMAIN d : d[i].key = key

dict_get(d, key) == d[CHOOSE i \in DOMAIN d : d[i].key = key].val

\* d[key] = val
dict_set(d, key, val) ==
    IF dict_has(d, key)
    THEN [i \in DOMAIN d |-> IF d[i].key = key THEN [key |-> key, val |-> val] ELSE d[i]]
    ELSE Append(d, [key |-> key, val |-> val])

\* d.setdefault(key, []).append(x)
setdefault_append(d, key, x) ==
    IF dict_has(d, key)
    THEN [i \in DOMAIN d |->
            IF d[i].key = key THEN [key |-> key, val |-> Append(d[i].val, x)] ELSE d[i]]
    ELSE Append(d, [key |-> key, val |-> <<x>>])

\* the arXiv id of one item: DOI, then url, then the extra field
item_arxiv_id(summary, item) ==
    py_or(py_or(extract_arxiv_id(summary.doi), extract_arxiv_id(summary.url)),
          IF truthy(item.extra) THEN extract_arxiv_id(item.extra) ELSE None)

\* if key: d.setdefault(key, []).append(citekey)
index_key(d, key, citekey) ==
    IF truthy(key) THEN setdefault_append(d, key, citekey) ELSE d

\* one iteration of the loop over items, summary being summarize_item(item)
index_summary(acc, item, summary) ==
    IF summary = NoSummary THEN acc
    ELSE [records |-> dict_set(acc.records, summary.citekey, summary),
          by_doi |-> index_key(acc.by_doi, normalize_doi(summary.doi), summary.citekey),
          by_url |-> index_key(acc.by_url, normalize_url(summary.url), summary.citekey),
          by_arxiv |-> index_key(acc.by_arxiv, item_arxiv_id(summary, item),
                                 summary.citekey)]

index_item(acc, item) == index_summary(acc, item, summarize_item(item))

RECURSIVE index_items(_, _)
index_items(acc, items) ==
    IF items = <<>> THEN acc
    ELSE index_items(index_item(acc, Head(items)), Tail(items))

\* collision_warnings reporting nothing
collision_warnings_none(kind, d) == <<>>

RECURSIVE collision_warnings(_, _)
\* for key, citekeys in d.items(): if len(citekeys) > 1: warnings.append(...)
collision_warnings(kind, d) ==
    IF d = <<>> THEN <<>>
    ELSE (IF Len(Head(d).val) > 1
          THEN << [warning |-> "Duplicate index", kind |-> kind,
                   key |-> Head(d).key, citekeys |-> Head(d).val] >>
          ELSE <<>>) \o collision_warnings(kind, Tail(d))

\* the LibraryIndex returned for the dicts acc the loop filled
LibraryIndex(acc, total_items) ==
    [records |-> acc.records,
     by_doi |-> acc.by_doi,
     by_arxiv |-> acc.by_arxiv,
     by_url |-> acc.by_url,
     total_items |-> total_items,
     indexed_items |-> Len(acc.records),
     warnings |-> collision_warnings("DOI", acc.by_doi)
                  \o collision_warnings("arXiv", acc.by_arxiv)
                  \o collision_warnings("URL", acc.by_url)]

build_library_index(data) ==
    LibraryIndex(index_items([records |-> <<>>, by_doi |-> <<>>,
                              by_arxiv |-> <<>>, by_url |-> <<>>], data),
                 Len(data))

(***************************************************************************)
(* scripts/retrieval_tfidf.py                                              *)
(*                                                                         *)
(* The TF-IDF vectors and their cosine similarity are computed by          *)
(* scikit-learn.  The model takes the similarity as an oracle sim, a       *)
(* function of <<query, title>>: equal titles get equal scores, and an     *)
(* empty title (an empty document) scores 0.                               *)
(***************************************************************************)
\* key_greater putting the smaller citekey first among equal scores
key_greater_ascending(a, b, with_citekey) ==
    \/ a.score > b.score
    \/ with_citekey /\ a.score = b.score /\ str_less(a.citekey, b.citekey)

\* a's sort key is greater than b's; the key is score, or (score, citekey)
key_greater(a, b, with_citekey) ==
    \/ a.score > b.score
    \/ with_citekey /\ a.score = b.score /\ str_less(b.citekey, a.citekey)

RECURSIVE insert_sorted(_, _, _)
\* x goes before the first element whose key is smaller than x's
insert_sorted(sorted, x, with_citekey) ==
    IF sorted = <<>> THEN <<x>>
    ELSE IF key_greater(x, Head(sorted), with_citekey) THEN <<x>> \o sorted
    ELSE <<Head(sorted)>> \o insert_sorted(Tail(sorted), x, with_citekey)

RECURSIVE sort_reverse(_, _)
\* list.sort(key=..., reverse=True): descending, equal keys keep their order
sort_reverse(seq, with_citekey) ==
    IF seq = <<>> THEN <<>>
    ELSE insert_sorted(sort_reverse(SubSeq(seq, 1, Len(seq) - 1), with_citekey),
                       seq[Len(seq)], with_citekey)

\* seq[:n]
take(seq, n) == SubSeq(seq, 1, IF n < Len(seq) THEN (IF n < 0 THEN 0 ELSE n) ELSE Len(seq))

build_tfidf_index(records) ==
    [citekeys |-> [i \in DOMAIN records |-> records[i].key],
     titles |-> [i \in DOMAIN records |-> or_empty(records[i].val.title)]]

\* scored = list(zip(index.citekeys, scores))
score_all(index, sim, query_text) ==
    [i \in DOMAIN index.citekeys |->
        [citekey |-> index.citekeys[i], score |-> sim[<<query_text, index.titles[i]>>]]]

retrieve_top_k(index, sim, query, top_k) ==
    IF strip(or_empty(query), Whitespace) = <<>> \/ index.citekeys = <<>> THEN <<>>
    ELSE take(sort_reverse(score_all(index, sim, strip(or_empty(query), Whitespace)),
                           FALSE),
              top_k)

(***************************************************************************)
(* scripts/refs_extracted.py                                               *)
(*                                                                         *)
(* A JSON value is a record [t, v]: t is null, str, int, bool, list or     *)
(* dict; v is the string, the integer, the boolean, the sequence of values *)
(* or, for a dict, the sequence of [key, val] in document order.  JSON     *)
(* floats are left out, and so is str() of a list or a dict (its repr).    *)
(* A warning is a record [warning, ...] holding the fixed text and the     *)
(* values the code formats into it.                                        *)
(***************************************************************************)
JNull == [t |-> "null"]

JStr(s) == [t |-> "str", v |-> s]

JInt(n) == [t |-> "int", v |-> n]

JBool(b) == [t |-> "bool", v |-> b]

JList(xs) == [t |-> "list", v |-> xs]

JDict(d) == [t |-> "dict", v |-> d]

\* mapping.get(key)
json_get(mapping, key) == IF dict_has(mapping, key) THEN dict_get(mapping, key) ELSE JNull

\* bool(value)
json_truthy(value) ==
    \/ value.t = "str" /\ value.v # <<>>
    \/ value.t = "int" /\ value.v # 0
    \/ value.t = "bool" /\ value.v
    \/ value.t \in {"list", "dict"} /\ value.v # <<>>

\* a or b
json_or(a, b) == IF json_truthy(a) THEN a ELSE b

\* type(value).__name__
type_name(value) ==
    IF value.t = "null" THEN "NoneType" ELSE value.t

RECURSIVE digits(_)
\* str(n) for n >= 0
digits(n) ==
    IF n < 10 THEN <<DigitChars[n + 1]>>
    ELSE digits(n \div 10) \o <<DigitChars[(n % 10) + 1]>>

\* str(value)
py_str(value) ==
    CASE value.t = "str" -> value.v
      [] value.t = "int" -> IF value.v < 0 THEN <<"-">> \o digits(-value.v) ELSE digits(value.v)
      [] value.t = "null" -> <<"N","o","n","e">>
      [] value.t = "bool" -> IF value.v THEN <<"T","r","u","e">> ELSE <<"F","a","l","s","e">>

\* the JSON value of an optional string
to_json(s) == IF s = None THEN JNull ELSE JStr(s)

RECURSIVE _first_present(_, _)
_first_present(mapping, keys) ==
    IF keys = <<>> THEN JNull
    ELSE IF dict_has(mapping, Head(keys)) THEN dict_get(mapping, Head(keys))
    ELSE _first_present(mapping, Tail(keys))

\* the digits and single inner underscores int() accepts after the sign
int_literal(b) ==
    /\ b # <<>>
    /\ \A i \in DOMAIN b :
           \/ is_digit(b[i])
           \/ /\ b[i] = "_"
              /\ i - 1 \in DOMAIN b /\ is_digit(b[i - 1])
              /\ i + 1 \in DOMAIN b /\ is_digit(b[i + 1])

RECURSIVE int_value(_, _)
\* the number the literal b denotes, acc being the value of what was read
int_value(b, acc) ==
    IF b = <<>> THEN acc
    ELSE IF Head(b) = "_" THEN int_value(Tail(b), acc)
    ELSE int_value(Tail(b),
                   10 * acc + (CHOOSE i \in DOMAIN DigitChars : DigitChars[i] = Head(b)) - 1)

\* int(text) for a stripped text: the number, or default when int() raises
int_or(text, default) ==
    IF text # <<>> /\ Head(text) \in {"+", "-"}
    THEN IF int_literal(Tail(text))
         THEN (IF Head(text) = "-" THEN -1 ELSE 1) * int_value(Tail(text), 0)
         ELSE default
    ELSE IF int_literal(text) THEN int_value(text, 0) ELSE default

\* normalize.coerce_int
coerce_int(value, default) ==
    IF value.t = "int" THEN value.v
    ELSE IF value.t = "str" THEN int_or(strip(value.v, Whitespace), default)
    ELSE default

StartKeys == <<"line_start", "start_line", "startLine", "lineStart">>

EndKeys == <<"line_end", "end_line", "endLine", "lineEnd">>

\* line_start is None and line_end is None, p being <<line_start, line_end>>
both_none(p) == p[1] = JNull /\ p[2] = JNull

\* the pair after the line_range / lineRange list was looked at
from_line_range(p, line_range) ==
    IF both_none(p) /\ line_range.t = "list" /\ Len(line_range.v) = 2
    THEN <<line_range.v[1], line_range.v[2]>> ELSE p

\* the pair after the lines object was looked at
from_lines(p, lines) ==
    IF both_none(p) /\ lines.t = "dict"
    THEN <<_first_present(lines.v, <<"start", "line_start", "start_line">>),
           _first_present(lines.v, <<"end", "line_end", "end_line">>)>>
    ELSE p

\* the pair after the single line was looked at
from_line(p, single) ==
    IF both_none(p) /\ single # JNull THEN <<single, single>> ELSE p

\* swap_inverted leaving an inverted range as it is
swap_inverted_never(start_i, end_i, warnings) ==
    [line_start |-> start_i, line_end |-> end_i, warnings |-> warnings]

\* the range and warnings for the coerced values start_i and end_i
swap_inverted(start_i, end_i, warnings) ==
    IF start_i >= 0 /\ end_i >= 0 /\ end_i < start_i
    THEN [line_start |-> end_i, line_end |-> start_i,
          warnings |-> Append(warnings, [warning |-> "Swapped line range",
                                         start |-> start_i, end |-> end_i])]
    ELSE [line_start |-> start_i, line_end |-> end_i, warnings |-> warnings]

\* the values of line_start and line_end the keys of obj give
line_values(obj) ==
    from_line(
        from_lines(
            from_line_range(<<_first_present(obj, StartKeys), _first_present(obj, EndKeys)>>,
                            json_or(json_get(obj, "line_range"), json_get(obj, "lineRange"))),
            json_get(obj, "lines")),
        json_get(obj, "line"))

coerce_range(p, warnings) ==
    swap_inverted(coerce_int(p[1], -1), coerce_int(p[2], -1), warnings)

\* [line_start, line_end, warnings]: the range, and warnings as the call leaves it
_extract_line_range(obj, warnings) == coerce_range(line_values(obj), warnings)

\* value if value else the extracted string
backfill(value, extracted) == IF json_truthy(value) THEN value ELSE to_json(extracted)

\* str(value) if value else ""
str_if(value) == IF json_truthy(value) THEN py_str(value) ELSE <<>>

\* clean(value) of _normalize_parsed
clean(value) ==
    IF value = JNull THEN None ELSE or_none(strip(py_str(value), Whitespace))

\* the arXiv id back-filled from the text, the DOI and the URL
arxiv_from(raw_text, doi, url) ==
    py_or(py_or(extract_arxiv_id(raw_text), extract_arxiv_id(str_if(doi))),
          extract_arxiv_id(str_if(url)))

\* the dict _normalize_parsed returns, doi and url being back-filled
parsed_fields(raw_text, parsed, doi, url) ==
    [doi |-> clean(doi),
     url |-> clean(url),
     arxiv |-> clean(backfill(json_get(parsed, "arxiv"), arxiv_from(raw_text, doi, url))),
     year |-> clean(backfill(json_get(parsed, "year"), extract_year(raw_text))),
     title_guess |-> clean(json_get(parsed, "title_guess")),
     author_guess |-> clean(json_get(parsed, "author_guess"))]

\* _normalize_parsed for the entries parsed of a dict
normalize_parsed_dict(raw_text, parsed) ==
    parsed_fields(raw_text, parsed,
                  backfill(json_get(parsed, "doi"), extract_doi(raw_text)),
                  backfill(json_get(parsed, "url"), extract_first_url(raw_text)))

_normalize_parsed(raw_text, parsed) ==
    normalize_parsed_dict(raw_text, IF parsed.t = "dict" THEN parsed.v ELSE <<>>)

\* _normalize_ref returned None
NoRef == [absent |-> TRUE]

RECURSIVE non_blank_strs(_)
\* [str(x) for x in raw_lines if str(x).strip()]
non_blank_strs(raw_lines) ==
    IF raw_lines = <<>> THEN <<>>
    ELSE (IF strip(py_str(Head(raw_lines)), Whitespace) # <<>>
          THEN <<py_str(Head(raw_lines))>> ELSE <<>>)
         \o non_blank_strs(Tail(raw_lines))

\* raw_text once the raw_lines keys were looked at
text_from_lines(raw_text, raw_lines) ==
    IF raw_text = JNull /\ raw_lines.t = "list"
    THEN JStr(join(<<"\n">>, non_blank_strs(raw_lines.v)))
    ELSE raw_text

\* raw_text_str of the object obj
raw_text_of(obj) ==
    text_from_lines(_first_present(obj, <<"raw_text", "rawText", "text", "raw">>),
                    _first_present(obj, <<"raw_lines", "rawLines", "lines_raw", "rawLinesText">>))

\* str(value).strip() if value is not None else ""
str_strip(value) == IF value # JNull THEN strip(py_str(value), Whitespace) ELSE <<>>

\* the Reference of an object with text, range being _extract_line_range of it
reference(ref_id_str, raw_text_str, range, parsed) ==
    [ref |-> [ref_id |-> ref_id_str,
              line_start |-> range.line_start,
              line_end |-> range.line_end,
              raw_text |-> raw_text_str,
              parsed |-> _normalize_parsed(raw_text_str, parsed)],
     warnings |-> range.warnings]

\* _normalize_ref of an object, its id and text being known
normalize_object(obj, ref_id_str, raw_text_str, warnings) ==
    IF raw_text_str = <<>>
    THEN [ref |-> NoRef,
          warnings |-> Append(warnings, [warning |-> "Skipped ref with no raw_text",
                                         ref_id |-> ref_id_str])]
    ELSE reference(ref_id_str, raw_text_str, _extract_line_range(obj, warnings),
                   json_get(obj, "parsed"))

\* _normalize_ref of a string entry
normalize_string(raw_text) ==
    IF raw_text = <<>> THEN NoRef
    ELSE [ref_id |-> <<>>, line_start |-> -1, line_end |-> -1, raw_text |-> raw_text,
          parsed |-> _normalize_parsed(raw_text, JDict(<<>>))]

\* [ref, warnings]: what _normalize_ref returns, and warnings as it leaves it
_normalize_ref(ref, warnings) ==
    IF ref.t = "str"
    THEN [ref |-> normalize_string(strip(ref.v, Whitespace)), warnings |-> warnings]
    ELSE IF ref.t # "dict"
    THEN [ref |-> NoRef,
          warnings |-> Append(warnings, [warning |-> "Skipped non-object ref entry",
                                         type |-> type_name(ref)])]
    ELSE normalize_object(ref.v,
                          str_strip(_first_present(ref.v, <<"ref_id", "id", "refId", "number">>)),
                          str_strip(raw_text_of(ref.v)),
                          warnings)

\* refs.append(normalized) unless it is None
keep_ref(acc, normalized) ==
    [refs |-> IF normalized.ref = NoRef THEN acc.refs ELSE Append(acc.refs, normalized.ref),
     warnings |-> normalized.warnings]

RECURSIVE normalize_refs(_, _)
\* the loop over refs_raw: acc is [refs, warnings]
normalize_refs(acc, refs_raw) ==
    IF refs_raw = <<>> THEN acc
    ELSE normalize_refs(keep_ref(acc, _normalize_ref(Head(refs_raw), acc.warnings)),
                        Tail(refs_raw))

\* the warning for a top-level value that is no object
top_level_warnings(data) ==
    IF data.t = "dict" THEN <<>>
    ELSE <<[warning |-> "Unexpected top-level JSON type", type |-> type_name(data)]>>

\* refs_list recording no warning for a missing list
refs_list_silent(refs_raw, warnings) ==
    IF refs_raw = JNull
    THEN [refs_raw |-> <<>>, warnings |-> warnings]
    ELSE IF refs_raw.t # "list"
    THEN [refs_raw |-> <<>>,
          warnings |-> Append(warnings, [warning |-> "refs is not a list",
                                         type |-> type_name(refs_raw)])]
    ELSE [refs_raw |-> refs_raw.v, warnings |-> warnings]

\* refs_raw as a list, with the warnings of the two tests on it
refs_list(refs_raw, warnings) ==
    IF refs_raw = JNull
    THEN [refs_raw |-> <<>>, warnings |-> Append(warnings, [warning |-> "No refs found"])]
    ELSE IF refs_raw.t # "list"
    THEN [refs_raw |-> <<>>,
          warnings |-> Append(warnings, [warning |-> "refs is not a list",
                                         type |-> type_name(refs_raw)])]
    ELSE [refs_raw |-> refs_raw.v, warnings |-> warnings]

\* meta["warnings"] after the warnings of the load were added to meta
meta_warnings(meta, warnings) ==
    IF json_get(meta, "warnings").t = "list"
    THEN json_get(meta, "warnings").v \o warnings
    ELSE warnings

\* RefsExtracted(meta, refs, warnings); of meta only the warnings are kept
RefsExtracted(meta, done) ==
    [meta |-> [warnings |-> meta_warnings(meta, done.warnings)],
     refs |-> done.refs,
     warnings |-> done.warnings]

\* the loop of load_refs_extracted on the list refs_list made
load_list(meta, list) ==
    RefsExtracted(meta, normalize_refs([refs |-> <<>>, warnings |-> list.warnings],
                                       list.refs_raw))

\* load_refs_extracted on the value data that json.load returned
load_refs_extracted(data) ==
    IF data.t = "dict"
    THEN load_list(IF json_get(data.v, "meta").t = "dict"
                   THEN json_get(data.v, "meta").v ELSE <<>>,
                   refs_list(_first_present(data.v, <<"refs", "references", "items">>), <<>>))
    ELSE load_list(<<>>, refs_list(JNull, top_level_warnings(data)))

(***************************************************************************)
(* scripts/match_pipeline.py                                               *)
(*                                                                         *)
(* A Reference is [ref_id, line_start, line_end, raw_text, parsed], parsed *)
(* being [doi, url, arxiv, year, title_guess, author_guess].               *)
(***************************************************************************)
\* MatchParams defaults, in hundredths
top_k_default == 10
tfidf_auto_match_threshold_default == 90
tfidf_auto_match_gap_default == 10
tfidf_needs_llm_threshold_default == 25
year_boost_default == 3
author_boost_default == 3

MatchParams ==
    [top_k |-> top_k_default,
     tfidf_auto_match_threshold |-> tfidf_auto_match_threshold_default,
     tfidf_auto_match_gap |-> tfidf_auto_match_gap_default,
     tfidf_needs_llm_threshold |-> tfidf_needs_llm_threshold_default,
     year_boost |-> year_boost_default,
     author_boost |-> author_boost_default]

_candidate_from_record(record, score) ==
    [citekey |-> or_empty(record.citekey),
     itemKey |-> or_empty(record.itemKey),
     score |-> score,
     title |-> or_empty(record.title),
     year |-> record.year,
     authors |-> record.authors,
     doi |-> record.doi,
     url |-> record.url]

\* if needle: if needle in hay
author_in(needle, hay) == needle # <<>> /\ contains(hay, needle)

\* _apply_light_boosts keeping the score at 1.0 or below
_apply_light_boosts_clamped(base_score, ref_year, ref_author_guess, cand_year, cand_authors, params) ==
    IF base_score
       + (IF truthy(ref_year) /\ truthy(cand_year) /\ ref_year = cand_year
          THEN params.year_boost ELSE 0)
       + (IF truthy(ref_author_guess)
             /\ author_in(lower(strip(ref_author_guess, Whitespace)),
                          lower(join(<<" ">>, cand_authors)))
          THEN params.author_boost ELSE 0) > 100
    THEN 100
    ELSE base_score
         + (IF truthy(ref_year) /\ truthy(cand_year) /\ ref_year = cand_year
            THEN params.year_boost ELSE 0)
         + (IF truthy(ref_author_guess)
               /\ author_in(lower(strip(ref_author_guess, Whitespace)),
                            lower(join(<<" ">>, cand_authors)))
            THEN params.author_boost ELSE 0)

_apply_light_boosts(base_score, ref_year, ref_author_guess, cand_year, cand_authors, params) ==
    base_score
    + (IF truthy(ref_year) /\ truthy(cand_year) /\ ref_year = cand_year
       THEN params.year_boost ELSE 0)
    + (IF truthy(ref_author_guess)
          /\ author_in(lower(strip(ref_author_guess, Whitespace)),
                       lower(join(<<" ">>, cand_authors)))
       THEN params.author_boost ELSE 0)

\* conf_for without the test for a single citekey
conf_for_ambiguous(citekeys) == 80

\* conf_for with the confidence of a single citekey for every list
conf_for_unique(citekeys) == 99

conf_for(citekeys) == IF Len(citekeys) = 1 THEN 99 ELSE 80

\* return None, [], 0.0
NoHit == [method |-> "None", citekeys |-> <<>>, conf |-> 0]

\* if key and key in reverse_index: return method, citekeys, confidence
index_hit(method, reverse_index, key) ==
    IF truthy(key) /\ dict_has(reverse_index, key)
    THEN [method |-> method, citekeys |-> dict_get(reverse_index, key),
          conf |-> conf_for(dict_get(reverse_index, key))]
    ELSE NoHit

\* the first of two lookups that returned
first_hit(a, b) == IF a.method # "None" THEN a ELSE b

\* _deterministic_match asking the URL index before the DOI and arXiv indexes
_deterministic_match_url_first(ref, library) ==
    first_hit(index_hit("url", library.by_url, normalize_url(ref.parsed.url)),
    first_hit(index_hit("doi", library.by_doi, normalize_doi(ref.parsed.doi)),
              index_hit("arxiv", library.by_arxiv,
                        IF truthy(ref.parsed.arxiv)
                        THEN extract_arxiv_id(ref.parsed.arxiv) ELSE None)))

_deterministic_match(ref, library) ==
    first_hit(index_hit("doi", library.by_doi, normalize_doi(ref.parsed.doi)),
    first_hit(index_hit("arxiv", library.by_arxiv,
                        IF truthy(ref.parsed.arxiv)
                        THEN extract_arxiv_id(ref.parsed.arxiv) ELSE None),
              index_hit("url", library.by_url, normalize_url(ref.parsed.url))))

_select_query_text(ref) ==
    IF truthy(ref.parsed.title_guess) /\ strip(ref.parsed.title_guess, Whitespace) # <<>>
    THEN strip(ref.parsed.title_guess, Whitespace)
    ELSE strip(or_empty(ref.raw_text), Whitespace)

\* score=1.0 of a candidate found by identifier
det_score == 100

RECURSIVE det_candidates(_, _)
\* for ck in det_citekeys: record = library.records.get(ck); if record: append
det_candidates(citekeys, records) ==
    IF citekeys = <<>> THEN <<>>
    ELSE (IF dict_has(records, Head(citekeys))
          THEN <<_candidate_from_record(dict_get(records, Head(citekeys)), det_score)>>
          ELSE <<>>) \o det_candidates(Tail(citekeys), records)

RECURSIVE lexical_candidates(_, _, _, _)
\* for ck, base_score in retrieved: ... candidates.append(...)
lexical_candidates(retrieved, ref, records, params) ==
    IF retrieved = <<>> THEN <<>>
    ELSE LET ck == Head(retrieved).citekey
             rest == lexical_candidates(Tail(retrieved), ref, records, params)
         IN  IF ~dict_has(records, ck) THEN rest
             ELSE LET record == dict_get(records, ck)
                      score == _apply_light_boosts(Head(retrieved).score,
                                   ref.parsed.year, ref.parsed.author_guess,
                                   record.year, record.authors, params)
                  IN  <<_candidate_from_record(record, score)>> \o rest

\* the match of a reference that an identifier found in the library
det_match(det, det_cands, records) ==
    IF Len(det.citekeys) = 1
    THEN [status |-> "matched",
          citekey |-> det.citekeys[1],
          itemKey |-> IF dict_has(records, det.citekeys[1])
                      THEN or_none(dict_get(records, det.citekeys[1]).itemKey)
                      ELSE None,
          method |-> det.method,
          confidence |-> det.conf]
    ELSE [status |-> IF det_cands # <<>> THEN "needs_llm" ELSE "needs_review",
          citekey |-> None, itemKey |-> None,
          method |-> det.method, confidence |-> det.conf]

\* tier_status without the test of the gap between the best two scores
tier_status_no_gap(top1, top2, params) ==
    IF top1 >= params.tfidf_auto_match_threshold THEN "matched"
    ELSE IF top1 >= params.tfidf_needs_llm_threshold THEN "needs_llm"
    ELSE "needs_review"

\* the tier of a reference whose best two boosted scores are top1 and top2
tier_status(top1, top2, params) ==
    IF top1 >= params.tfidf_auto_match_threshold
       /\ (top1 - top2) >= params.tfidf_auto_match_gap
    THEN "matched"
    ELSE IF top1 >= params.tfidf_needs_llm_threshold THEN "needs_llm"
    ELSE "needs_review"

\* lexical_match leaving a reference without candidates for review
lexical_match_review(candidates, params) ==
    IF candidates = <<>>
    THEN [status |-> "needs_review", citekey |-> None, itemKey |-> None,
          method |-> "none", confidence |-> 0]
    ELSE LET top1 == candidates[1].score
             top2 == IF Len(candidates) > 1 THEN candidates[2].score ELSE 0
             status == tier_status(top1, top2, params)
         IN  [status |-> status,
              citekey |-> IF status = "matched"
                          THEN or_none(or_empty(candidates[1].citekey)) ELSE None,
              itemKey |-> IF status = "matched"
                          THEN or_none(or_empty(candidates[1].itemKey)) ELSE None,
              method |-> "tfidf", confidence |-> top1]

\* the match of a reference on the lexical path; candidates are sorted
lexical_match(candidates, params) ==
    LET top1 == candidates[1].score
        top2 == IF Len(candidates) > 1 THEN candidates[2].score ELSE 0
        status == tier_status(top1, top2, params)
    IN  IF candidates = <<>>
        THEN [status |-> "unmatched", citekey |-> None, itemKey |-> None,
              method |-> "none", confidence |-> 0]
        ELSE [status |-> status,
              citekey |-> IF status = "matched"
                          THEN or_none(or_empty(candidates[1].citekey)) ELSE None,
              itemKey |-> IF status = "matched"
                          THEN or_none(or_empty(candidates[1].itemKey)) ELSE None,
              method |-> "tfidf", confidence |-> top1]

\* int(value or -1)
int_or_minus_one(value) == IF value = 0 THEN -1 ELSE value

\* the record appended to refs_out
ref_out(ref, match, candidates) ==
    [ref_id |-> or_empty(ref.ref_id),
     line_start |-> int_or_minus_one(ref.line_start),
     line_end |-> int_or_minus_one(ref.line_end),
     raw_text |-> or_empty(ref.raw_text),
     parsed |-> ref.parsed,
     match |-> match,
     candidates |-> candidates]

\* the branch of the loop body for a reference an identifier found
resolve_det(ref, det, det_cands, records) ==
    ref_out(ref, det_match(det, det_cands, records), det_cands)

\* the branch of the loop body for a reference no identifier found
resolve_lexical(ref, lex_cands, params) ==
    ref_out(ref, lexical_match(lex_cands, params), lex_cands)

\* the loop body after det = _deterministic_match(ref, library)
resolve_with(ref, library, sim, params, det) ==
    IF det.method # "None"
    THEN resolve_det(ref, det, det_candidates(det.citekeys, library.records),
                     library.records)
    ELSE resolve_lexical(ref,
             sort_reverse(
                 lexical_candidates(
                     retrieve_top_k(build_tfidf_index(library.records), sim,
                                    _select_query_text(ref), params.top_k),
                     ref, library.records, params),
                 TRUE),
             params)

\* the body of the loop over refs_extracted.refs
resolve_ref(ref, library, sim, params) ==
    resolve_with(ref, library, sim, params, _deterministic_match(ref, library))

ZeroStats == [total |-> 0, matched |-> 0, needs_llm |-> 0, needs_review |-> 0, unmatched |-> 0]

\* count_ref putting the record at the front of refs_out
count_ref_prepend(acc, out) ==
    [refs_out |-> <<out>> \o acc.refs_out,
     stats |-> [acc.stats EXCEPT !.total = @ + 1, ![out.match.status] = @ + 1]]

\* stats["total"] += 1; stats[status] += 1; refs_out.append(out)
count_ref(acc, out) ==
    [refs_out |-> Append(acc.refs_out, out),
     stats |-> [acc.stats EXCEPT !.total = @ + 1, ![out.match.status] = @ + 1]]

RECURSIVE resolve_refs(_, _, _, _, _)
\* the loop over refs_extracted.refs: acc is [refs_out, stats]
resolve_refs(acc, refs, library, sim, params) ==
    IF refs = <<>> THEN acc
    ELSE resolve_refs(count_ref(acc, resolve_ref(Head(refs), library, sim, params)),
                      Tail(refs), library, sim, params)

RECURSIVE document_warnings(_)
\* [str(w) for w in warnings_in if str(w).strip()]: a warning the load added
\* is a non-blank string; one the document held is any JSON value
document_warnings(warnings_in) ==
    IF warnings_in = <<>> THEN <<>>
    ELSE (IF "t" \notin DOMAIN Head(warnings_in) THEN <<Head(warnings_in)>>
          ELSE IF strip(py_str(Head(warnings_in)), Whitespace) # <<>>
          THEN <<[warning |-> "document", text |-> py_str(Head(warnings_in))]>>
          ELSE <<>>)
         \o document_warnings(Tail(warnings_in))

\* return {"meta": meta, "refs": refs_out, "stats": stats}
match_result_of(refs_extracted, library, done) ==
    [meta |-> [library_item_count |-> library.indexed_items,
               library_total_item_count |-> library.total_items,
               warnings |-> document_warnings(refs_extracted.meta.warnings)
                            \o library.warnings],
     refs |-> done.refs_out,
     stats |-> done.stats]

\* build_initial_match_result from refs_extracted = load_refs_extracted(path) and
\* library = build_library_index(library_data) on
build_initial_match_result(refs_extracted, library, sim, params) ==
    match_result_of(refs_extracted, library,
        resolve_refs([refs_out |-> <<>>, stats |-> ZeroStats],
                     refs_extracted.refs, library, sim, params))

(***************************************************************************)
(* scripts/apply_llm_decisions.py                                          *)
(*                                                                         *)
(* A decision is [is_dict, ref_id, citekey, confidence, reason];           *)
(* confidence is <<>> for null/absent and <<n>> for the number n.  An      *)
(* entry of the decisions list that is no JSON object has is_dict FALSE.   *)
(***************************************************************************)
RECURSIVE _index_refs_by_id(_, _, _)
\* ref_id -> position of the first ref carrying it; refs without id are left out
_index_refs_by_id(refs, i, out) ==
    IF i > Len(refs) THEN out
    ELSE LET ref_id == strip(or_empty(refs[i].ref_id), Whitespace)
         IN  _index_refs_by_id(refs, i + 1,
                 IF ref_id = <<>> \/ dict_has(out, ref_id) THEN out
                 ELSE dict_set(out, ref_id, i))

RECURSIVE _candidate_map(_, _)
\* citekey -> the first candidate carrying it
_candidate_map(candidates, out) ==
    IF candidates = <<>> THEN out
    ELSE LET ck == strip(or_empty(Head(candidates).citekey), Whitespace)
         IN  _candidate_map(Tail(candidates),
                 IF ck # <<>> /\ ~dict_has(out, ck) THEN dict_set(out, ck, Head(candidates))
                 ELSE out)

RECURSIVE _recompute_stats_no_unmatched(_, _)
\* _recompute_stats counting no reference as unmatched
_recompute_stats_no_unmatched(refs, stats) ==
    IF refs = <<>> THEN stats
    ELSE LET counted == [stats EXCEPT !.total = @ + 1]
             status == Head(refs).match.status
         IN  _recompute_stats_no_unmatched(Tail(refs),
                 IF status \in {"matched", "needs_llm", "needs_review"}
                 THEN [counted EXCEPT ![status] = @ + 1]
                 ELSE counted)

RECURSIVE _recompute_stats(_, _)
_recompute_stats(refs, stats) ==
    IF refs = <<>> THEN stats
    ELSE LET counted == [stats EXCEPT !.total = @ + 1]
             status == Head(refs).match.status
         IN  _recompute_stats(Tail(refs),
                 IF status \in DOMAIN stats
                 THEN [counted EXCEPT ![status] = @ + 1]
                 ELSE [counted EXCEPT !.unmatched = @ + 1])

\* match.update(fields); if reason is not None: match["reason"] = reason
match_update(match, fields, reason) ==
    IF reason # None THEN ("reason" :> reason) @@ fields @@ match
    ELSE fields @@ match

\* unmatched_fields leaving the citekey and itemKey of the match as they are
unmatched_fields_keep_keys(confidence) ==
    [status |-> "unmatched", method |-> "llm",
     confidence |-> IF confidence # <<>> THEN confidence[1] ELSE 0]

\* unmatched_fields leaving the method of the match as it is
unmatched_fields_keep_method(confidence) ==
    [status |-> "unmatched", citekey |-> None, itemKey |-> None,
     confidence |-> IF confidence # <<>> THEN confidence[1] ELSE 0]

\* the keys a decision without citekey writes into the match
unmatched_fields(confidence) ==
    [status |-> "unmatched", citekey |-> None, itemKey |-> None, method |-> "llm",
     confidence |-> IF confidence # <<>> THEN confidence[1] ELSE 0]

\* matched_fields with confidence 0.0 for a decision that supplies none
matched_fields_zero(citekey, cand, confidence, match) ==
    [status |-> "matched", citekey |-> citekey,
     itemKey |-> or_none(or_empty(cand.itemKey)), method |-> "llm",
     confidence |-> IF confidence # <<>> THEN confidence[1] ELSE 0]

\* the keys a decision for the candidate cand writes into the match
matched_fields(citekey, cand, confidence, match) ==
    [status |-> "matched", citekey |-> citekey,
     itemKey |-> or_none(or_empty(cand.itemKey)), method |-> "llm",
     confidence |-> IF confidence # <<>> THEN confidence[1] ELSE match.confidence]

\* the citekey a decision chooses: stripped, None for null, "" and "null"
decision_citekey(d) ==
    LET stripped == IF d.citekey # None THEN strip(d.citekey, Whitespace) ELSE None
    IN  IF stripped = <<>> \/ stripped = <<"n","u","l","l">> THEN None ELSE stripped

\* str(d.get("ref_id") or "").strip()
decision_ref_id(d) == strip(or_empty(d.ref_id), Whitespace)

\* str(d.get("reason") or "").strip() or None
decision_reason(d) == or_none(strip(or_empty(d.reason), Whitespace))

\* apply_choice skipping, with a warning, a citekey that is not a candidate
apply_choice_skip(st, d, i, citekey, candidates) ==
    IF ~dict_has(candidates, citekey)
    THEN [st EXCEPT !.warnings = Append(@, [warning |-> "Decision citekey not in candidates",
                                              ref_id |-> decision_ref_id(d)])]
    ELSE [st EXCEPT !.refs[i].match =
              match_update(@, matched_fields(citekey, dict_get(candidates, citekey),
                                             d.confidence, @),
                           decision_reason(d))]

\* apply_choice matching the reference to the citekey whether or not it is
\* a candidate
apply_choice_any(st, d, i, citekey, candidates) ==
    [st EXCEPT !.refs[i].match =
         match_update(@, [status |-> "matched", citekey |-> citekey, itemKey |-> None,
                          method |-> "llm",
                          confidence |-> IF d.confidence # <<>> THEN d.confidence[1]
                                         ELSE @.confidence],
                      decision_reason(d))]

\* the decision d chooses citekey for refs[i], candidates being _candidate_map(ref)
apply_choice(st, d, i, citekey, candidates) ==
    IF ~dict_has(candidates, citekey)
    THEN [st EXCEPT !.raised = TRUE]
    ELSE [st EXCEPT !.refs[i].match =
              match_update(@, matched_fields(citekey, dict_get(candidates, citekey),
                                             d.confidence, @),
                           decision_reason(d))]

\* the loop body once the decision d is known to name refs[i]
apply_to_ref(st, d, i, citekey) ==
    IF citekey = None
    THEN [st EXCEPT !.refs[i].match =
              match_update(@, unmatched_fields(d.confidence), decision_reason(d))]
    ELSE apply_choice(st, d, i, citekey, _candidate_map(st.refs[i].candidates, <<>>))

\* apply_decision skipping an unknown ref_id without a warning
apply_decision_silent(st, d, refs_by_id) ==
    IF ~d.is_dict THEN st
    ELSE IF decision_ref_id(d) = <<>>
    THEN [st EXCEPT !.warnings = Append(@, [warning |-> "Skipped decision with empty ref_id"])]
    ELSE IF ~dict_has(refs_by_id, decision_ref_id(d))
    THEN st
    ELSE apply_to_ref(st, d, dict_get(refs_by_id, decision_ref_id(d)), decision_citekey(d))

\* one iteration of the loop over decisions_list; st is [refs, warnings, raised]
apply_decision(st, d, refs_by_id) ==
    IF ~d.is_dict THEN st
    ELSE IF decision_ref_id(d) = <<>>
    THEN [st EXCEPT !.warnings = Append(@, [warning |-> "Skipped decision with empty ref_id"])]
    ELSE IF ~dict_has(refs_by_id, decision_ref_id(d))
    THEN [st EXCEPT !.warnings = Append(@, [warning |-> "Decision ref_id not found",
                                              ref_id |-> decision_ref_id(d)])]
    ELSE apply_to_ref(st, d, dict_get(refs_by_id, decision_ref_id(d)), decision_citekey(d))

RECURSIVE apply_decisions_loop(_, _, _)
\* the loop over decisions_list, left when an iteration raises
apply_decisions_loop(st, decisions_list, refs_by_id) ==
    IF decisions_list = <<>> \/ st.raised THEN st
    ELSE apply_decisions_loop(apply_decision(st, Head(decisions_list), refs_by_id),
                              Tail(decisions_list), refs_by_id)

\* the match_result object after the loop ended in st, and whether it raised
apply_result(match_result, st) ==
    IF st.raised
    THEN [updated |-> [match_result EXCEPT !.refs = st.refs], raised |-> TRUE]
    ELSE [updated |-> [meta |-> [match_result.meta EXCEPT !.warnings = @ \o st.warnings],
                       refs |-> st.refs,
                       stats |-> _recompute_stats(st.refs, ZeroStats)],
          raised |-> FALSE]

apply_llm_decisions(match_result, decisions_list) ==
    apply_result(match_result,
        apply_decisions_loop(
            [refs |-> match_result.refs, warnings |-> <<>>, raised |-> FALSE],
            decisions_list, _index_refs_by_id(match_result.refs, 1, <<>>)))

(***************************************************************************)
(* Inputs of the model.                                                    *)
(***************************************************************************)
MaxItems == 2
MaxRefs == 2
MaxDecisions == 2
MaxApplies == 2

ck_li == <<"l","i">>
ck_xu == <<"x","u">>
ck_wu == <<"w","u">>
ck_zz == <<"z","z">>
doi_a == <<"1","0",".","1","/","a">>
doi_b == <<"1","0",".","1","/","b">>
url_p == <<"x",".","o","r","g","/","p">>
arxiv_1 == <<"2","1","0","1",".","0","0","0","0","1">>
title_1 == <<"t","1">>
title_2 == <<"t","2">>
query_1 == <<"q","1">>
query_2 == <<"q","2">>

author(last, first) ==
    [creatorType |-> <<"a","u","t","h","o","r">>, lastName |-> last, firstName |-> first]

item_li ==
      [citationKey |-> ck_li, itemKey |-> <<"K","1">>, title |-> title_1,
       date |-> <<"2","0","2","0">>, DOI |-> doi_a, url |-> None, extra |-> None,
       creators |-> <<author(<<"L","i">>, <<"A">>)>>]

item_xu ==
      [citationKey |-> ck_xu, itemKey |-> None, title |-> title_2,
       date |-> <<"2","0","2","1","-","0","5">>,
       DOI |-> DoiPrefixes[1] \o <<"1","0",".","1","/","A"," ">>,
       url |-> UrlPrefixes[1] \o url_p,
       extra |-> <<"a","r","X","i","v",":">> \o arxiv_1 \o <<"v","2">>,
       creators |-> <<[creatorType |-> <<"e","d","i","t","o","r">>,
                       lastName |-> <<"L","i">>, firstName |-> None],
                      author(<<"X","u">>, None)>>]

item_li_again ==
      [citationKey |-> ck_li, itemKey |-> <<"K","3">>, title |-> title_2,
       date |-> None, DOI |-> doi_b,
       url |-> UrlPrefixes[2] \o <<"w","w","w",".">> \o url_p \o <<"/">>,
       extra |-> None, creators |-> <<>>]

item_no_citekey ==
      [citationKey |-> None, itemKey |-> <<"K","4">>, title |-> title_1,
       date |-> None, DOI |-> doi_a, url |-> None, extra |-> None, creators |-> <<>>]

item_wu ==
      [citationKey |-> ck_wu, itemKey |-> <<"K","2">>, title |-> title_1,
       date |-> <<"2","0","2","0">>, DOI |-> <<".">>,
       url |-> <<"a","r","x","i","v",".","o","r","g","/","a","b","s","/">> \o arxiv_1,
       extra |-> None, creators |-> <<author(<<"W","u">>, <<"B">>)>>]

ItemPool == {item_li, item_xu, item_li_again, item_no_citekey, item_wu}

parsed(doi, url, arxiv, year, title_guess, author_guess) ==
    [doi |-> doi, url |-> url, arxiv |-> arxiv, year |-> year,
     title_guess |-> title_guess, author_guess |-> author_guess]

\* The References of the runs that look at the match: ref_id and raw_text
\* stripped, parsed values None or stripped and non-empty.  The raw texts hold
\* no identifier and no year, so nothing is back-filled from them.
ref_1 ==
      [ref_id |-> <<"1">>, line_start |-> 3, line_end |-> 4, raw_text |-> query_1,
       parsed |-> parsed(<<"d","o","i",":">> \o doi_a, UrlPrefixes[1] \o url_p, None,
                         <<"2","0","2","0">>, None, <<"L","i">>)]

ref_2 ==
      [ref_id |-> <<"2">>, line_start |-> 0, line_end |-> 0, raw_text |-> query_1,
       parsed |-> parsed(<<"1","0",".","1","/","z">>, UrlPrefixes[2] \o <<"w","w","w",".">> \o url_p,
                         <<"a","r","x","i","v",":">> \o arxiv_1, None, None, None)]

ref_3 ==
      [ref_id |-> <<"3">>, line_start |-> -1, line_end |-> -1, raw_text |-> query_1,
       parsed |-> parsed(None, None, None, <<"2","0","2","1">>, query_2, <<"x","u">>)]

ref_no_id ==
      [ref_id |-> <<>>, line_start |-> 5, line_end |-> 5, raw_text |-> query_2,
       parsed |-> parsed(<<".">>, None, None, <<"2","0","2","0">>, None, None)]

RefPool == {ref_1, ref_2, ref_3, ref_no_id}

\* the entry of refs_extracted.json that load_refs_extracted turns into ref
entry_of(ref) ==
    JDict(<< [key |-> "ref_id", val |-> JStr(ref.ref_id)],
             [key |-> "line_start", val |-> JInt(ref.line_start)],
             [key |-> "line_end", val |-> JInt(ref.line_end)],
             [key |-> "raw_text", val |-> JStr(ref.raw_text)],
             [key |-> "parsed",
              val |-> JDict(<< [key |-> "doi", val |-> to_json(ref.parsed.doi)],
                               [key |-> "url", val |-> to_json(ref.parsed.url)],
                               [key |-> "arxiv", val |-> to_json(ref.parsed.arxiv)],
                               [key |-> "year", val |-> to_json(ref.parsed.year)],
                               [key |-> "title_guess", val |-> to_json(ref.parsed.title_guess)],
                               [key |-> "author_guess",
                                val |-> to_json(ref.parsed.author_guess)] >>)] >>)

\* refs_extracted.json holding the entries under the key refs
document(entries) == JDict(<< [key |-> "refs", val |-> JList(entries)] >>)

\* refs_extracted.json holding the References refs
document_of(refs) == document([i \in DOMAIN refs |-> entry_of(refs[i])])

SeqsUpTo(S, n) == UNION {[1..k -> S] : k \in 0..n}

field(key, val) == [key |-> key, val |-> val]

doi_long == <<"1","0",".","1","2","3","4","/","a">>

text_li == <<"L","i"," ","(","2","0","2","0",")"," ">> \o doi_long \o <<".">>

\* entries of the references list as extraction tools write them
entry_blank == JStr(<<" ">>)

entry_text == JStr(<<" ">> \o text_li)

entry_number == JInt(7)

entry_no_text ==
    JDict(<< field("ref_id", JInt(4)), field("raw_text", JStr(<<" ">>)),
             field("line_start", JInt(8)), field("line_end", JInt(2)) >>)

entry_inverted ==
    JDict(<< field("id", JStr(<<"5"," ">>)), field("text", JStr(query_2)),
             field("line_end", JStr(<<"3">>)), field("line_start", JInt(9)) >>)

entry_start_only ==
    JDict(<< field("ref_id", JStr(<<"6">>)), field("raw_text", JStr(query_1)),
             field("line_start", JInt(5)),
             field("parsed", JDict(<< field("year", JInt(2020)),
                                      field("author_guess", JStr(<<"L","i">>)) >>)) >>)

entry_lines ==
    JDict(<< field("raw_lines", JList(<< JStr(query_1), JStr(<<" ">>), JStr(query_2) >>)),
             field("number", JInt(7)),
             field("lineRange", JList(<< JInt(4), JInt(2) >>)) >>)

entry_line_zero ==
    JDict(<< field("ref_id", JStr(<<"8">>)), field("raw", JStr(query_2)),
             field("line", JInt(0)), field("parsed", JNull) >>)

entry_end_only ==
    JDict(<< field("refId", JStr(<<"9">>)), field("rawText", JStr(query_1)),
             field("lines", JDict(<< field("start", JNull), field("end", JInt(6)) >>)) >>)

EntryPool ==
    { entry_blank, entry_text, entry_number, entry_no_text, entry_inverted,
      entry_start_only, entry_end_only, entry_lines, entry_line_zero, entry_of(ref_1) }

\* refs_extracted.json in the shapes load_refs_extracted tells apart
DocumentPool ==
    { document(entries) : entries \in SeqsUpTo(EntryPool, MaxRefs) }
        \cup { JList(<<entry_text>>),
               JDict(<< field("meta", JDict(<<>>)) >>),
               JDict(<< field("refs", JNull), field("references", JList(<<entry_text>>)) >>),
               JDict(<< field("items", JStr(query_1)) >>),
               JDict(<< field("meta", JDict(<< field("warnings",
                                                     JList(<< JStr(<<"w">>), JStr(<<" ">>) >>)) >>)),
                        field("references", JList(<< entry_number, entry_text >>)) >>),
               JDict(<< field("meta", JDict(<< field("warnings", JStr(<<"w">>)) >>)),
                        field("items", JList(<< entry_inverted >>)) >>) }

\* the inputs of the runs that go on to merge decisions
ApplyInputs ==
    { [library |-> <<item_li, item_xu>>, refs |-> <<ref_1, ref_3>>],
      [library |-> <<item_li>>, refs |-> <<ref_3, ref_1, ref_3>>],
      [library |-> <<>>, refs |-> <<ref_1, ref_3>>] }

\* similarity values the oracle may return, in hundredths
ScoreValues == {22, 85, 95}

TopKValues == {0, 1, top_k_default}

decision(ref_id, citekey, confidence, reason) ==
    [is_dict |-> TRUE, ref_id |-> ref_id, citekey |-> citekey,
     confidence |-> confidence, reason |-> reason]

DecisionPool ==
    { decision(<<"1">>, ck_li, <<70>>, None),
      decision(<<" ","3">>, ck_xu \o <<" ">>, <<>>, <<"r">>),
      decision(<<"3">>, None, <<>>, None),
      decision(<<"1">>, <<"n","u","l","l">>, <<70>>, None),
      decision(<<"3">>, ck_zz, <<>>, None),
      decision(<<"9">>, ck_li, <<>>, None) }


(***************************************************************************)
(* State.                                                                  *)
(***************************************************************************)
VARIABLES
    library_data,     \* the library export: the list of its items
    refs_document,    \* refs_extracted.json as json.load returns it
    refs_extracted,   \* RefsExtracted [meta, refs, warnings] the match command loaded
    similarity,       \* the similarity the retrieval index gave the match command
    params,           \* MatchParams of the match command
    match_result,     \* the match_result object of the last command
    match_file,       \* the content of match_result.json, NoFile before it is written
    before,           \* the content of match_result.json when the last command began
    decisions,        \* the decisions list of the last apply-decisions command
    pc,               \* "start"; "matched", "applied", "raised": how the running command
                      \* ended; "idle": it has exited
    library_index,    \* the LibraryIndex the match command built
    written,          \* whether the running command wrote match_result.json
    applies           \* the number of apply-decisions commands run

vars == <<library_data, refs_document, refs_extracted, similarity, params,
          match_result, match_file, before, decisions, pc, library_index, written,
          applies>>

NoFile == [refs |-> <<>>, absent |-> TRUE]

\* no LibraryIndex in memory
NoLibrary == [absent |-> TRUE]

\* no RefsExtracted in memory
NoRefs == [absent |-> TRUE, refs |-> <<>>]

\* no similarity computed
NoSimilarity == <<>>

InitState ==
    /\ match_result = NoFile
    /\ match_file = NoFile
    /\ before = NoFile
    /\ decisions = <<>>
    /\ pc = "start"
    /\ library_index = NoLibrary
    /\ refs_extracted = NoRefs
    /\ similarity = NoSimilarity
    /\ written = FALSE
    /\ applies = 0

\* the match command on every library and reference list within the bounds
InitMatch ==
    /\ library_data \in SeqsUpTo(ItemPool, MaxItems)
    /\ \E refs \in SeqsUpTo(RefPool, MaxRefs) : refs_document = document_of(refs)
    /\ \E k \in TopKValues : params = [MatchParams EXCEPT !.top_k = k]
    /\ InitState

\* the match command on the documents of DocumentPool
InitLoad ==
    /\ library_data \in {<<>>, <<item_li>>, <<item_li, item_xu>>}
    /\ refs_document \in DocumentPool
    /\ params = MatchParams
    /\ InitState

\* the libraries and reference lists to whose match result decisions are applied
Init ==
    /\ \E input \in ApplyInputs :
           /\ library_data = input.library
           /\ refs_document = document_of(input.refs)
    /\ params = MatchParams
    /\ InitState

\* the <<query, title>> pairs the lexical tier asks the similarity of
SimDomain(refs, library) ==
    { <<_select_query_text(refs[i]), or_empty(library.records[j].val.title)>> :
        i \in {i \in DOMAIN refs : _deterministic_match(refs[i], library).method = "None"},
        j \in DOMAIN library.records }

\* cmd_match: build_initial_match_result, then write_match_result
CmdMatch ==
    /\ pc = "start"
    /\ refs_extracted' = load_refs_extracted(refs_document)
    /\ library_index' = build_library_index(library_data)
    /\ similarity' \in [SimDomain(refs_extracted'.refs, library_index') -> ScoreValues]
    /\ match_result' = build_initial_match_result(refs_extracted', library_index',
                                                  similarity', params)
    /\ match_file' = match_result'
    /\ written' = TRUE
    /\ pc' = "matched"
    /\ UNCHANGED <<library_data, refs_document, params, before, decisions, applies>>

\* the command's process exits: its objects are gone, the file stays
Exit ==
    /\ pc \in {"matched", "applied", "raised"}
    /\ match_result' = NoFile
    /\ before' = NoFile
    /\ decisions' = <<>>
    /\ written' = FALSE
    /\ library_index' = NoLibrary
    /\ refs_extracted' = NoRefs
    /\ similarity' = NoSimilarity
    /\ pc' = "idle"
    /\ UNCHANGED <<library_data, refs_document, params, match_file, applies>>

\* cmd_apply_decisions after apply_llm_decisions: write_json, unless the call raised
ApplyEnds(result) ==
    /\ match_result' = result.updated
    /\ match_file' = IF result.raised THEN match_file ELSE result.updated
    /\ written' = ~result.raised
    /\ pc' = IF result.raised THEN "raised" ELSE "applied"

\* cmd_apply_decisions: load_json, apply_llm_decisions, then write_json
CmdApplyDecisions ==
    /\ pc = "idle"
    /\ applies < MaxApplies
    /\ \E ds \in SeqsUpTo(DecisionPool, MaxDecisions) :
           /\ decisions' = ds
           /\ ApplyEnds(apply_llm_decisions(match_file, ds))
    /\ before' = match_file
    /\ applies' = applies + 1
    /\ UNCHANGED <<library_data, refs_document, refs_extracted, similarity, params,
                   library_index>>

NextMatch == CmdMatch \/ Exit

SpecMatch == InitMatch /\ [][NextMatch]_vars

SpecLoad == InitLoad /\ [][NextMatch]_vars

Next == CmdMatch \/ CmdApplyDecisions \/ Exit

Spec == Init /\ [][Next]_vars


(***************************************************************************)
(* Properties of the initial match result                                  *)
(***************************************************************************)
\* the references given to match, and the records match made of them
refs_in == refs_extracted.refs

refs_out == match_result.refs

\* the library items that become records: those with a citation key
entries == {i \in DOMAIN library_data : summarize_item(library_data[i]) # NoSummary}

entry(i) == summarize_item(library_data[i])

\* the entries whose DOI normalises to doi
doi_holders(doi) == {i \in entries : normalize_doi(entry(i).doi) = doi}

candidate_citekeys(candidates) == {candidates[j].citekey : j \in DOMAIN candidates}

\* C1: after match, every reference whose normalised DOI (one that is not
\* empty after normalisation) is the DOI of exactly one library entry is
\* matched by method doi with confidence 0.99 to that entry's citekey.
C1_UniqueDoiMatched ==
    pc = "matched" =>
        \A r \in DOMAIN refs_in :
            LET doi == normalize_doi(refs_in[r].parsed.doi) IN
            (truthy(doi) /\ Cardinality(doi_holders(doi)) = 1) =>
                /\ refs_out[r].match.status = "matched"
                /\ refs_out[r].match.method = "doi"
                /\ refs_out[r].match.confidence = 99
                /\ \A i \in doi_holders(doi) :
                       refs_out[r].match.citekey = library_data[i].citationKey

\* a reference's DOI is held by one of two library entries
C1_Witness ==
    /\ pc = "matched"
    /\ Cardinality(entries) = 2
    /\ \E r \in DOMAIN refs_in :
           /\ truthy(normalize_doi(refs_in[r].parsed.doi))
           /\ Cardinality(doi_holders(normalize_doi(refs_in[r].parsed.doi))) = 1
           /\ refs_out[r].match.status = "matched"

\* C2: after match, a reference whose normalised DOI is the DOI of two (or
\* more) library entries is not matched: its status is needs_llm or
\* needs_review, its confidence 0.80, its citekey null, and the citekey of
\* every entry holding the DOI is among its candidates.
C2_SharedDoiAmbiguous ==
    pc = "matched" =>
        \A r \in DOMAIN refs_in :
            LET doi == normalize_doi(refs_in[r].parsed.doi) IN
            (truthy(doi) /\ Cardinality(doi_holders(doi)) >= 2) =>
                /\ refs_out[r].match.status \in {"needs_llm", "needs_review"}
                /\ refs_out[r].match.confidence = 80
                /\ refs_out[r].match.citekey = None
                /\ \A i \in doi_holders(doi) :
                       library_data[i].citationKey
                           \in candidate_citekeys(refs_out[r].candidates)

\* two entries with different citekeys hold the DOI of a reference
C2_Witness ==
    /\ pc = "matched"
    /\ \E r \in DOMAIN refs_in :
           LET doi == normalize_doi(refs_in[r].parsed.doi) IN
           /\ truthy(doi)
           /\ \E i, j \in doi_holders(doi) :
                  library_data[i].citationKey # library_data[j].citationKey
           /\ Len(refs_out[r].candidates) = 2
           /\ refs_out[r].match.status = "needs_llm"

\* a normalised identifier is a key of a reverse index of the library index
found(reverse_index, key) == truthy(key) /\ dict_has(reverse_index, key)

ref_doi(r) == normalize_doi(refs_in[r].parsed.doi)

ref_arxiv(r) ==
    IF truthy(refs_in[r].parsed.arxiv) THEN extract_arxiv_id(refs_in[r].parsed.arxiv)
    ELSE None

ref_url(r) == normalize_url(refs_in[r].parsed.url)

\* the identifier that decides reference r, "lexical" when none is found
decided_by(r) ==
    IF found(library_index.by_doi, ref_doi(r)) THEN "doi"
    ELSE IF found(library_index.by_arxiv, ref_arxiv(r)) THEN "arxiv"
    ELSE IF found(library_index.by_url, ref_url(r)) THEN "url"
    ELSE "lexical"

\* the citekeys the deciding reverse index holds for reference r
hits(r) ==
    IF decided_by(r) = "doi" THEN dict_get(library_index.by_doi, ref_doi(r))
    ELSE IF decided_by(r) = "arxiv" THEN dict_get(library_index.by_arxiv, ref_arxiv(r))
    ELSE IF decided_by(r) = "url" THEN dict_get(library_index.by_url, ref_url(r))
    ELSE <<>>

Max(S) == CHOOSE x \in S : \A y \in S : x >= y

\* the position of a best candidate, the best score and the second-best score
best(candidates) ==
    CHOOSE i \in DOMAIN candidates :
        \A j \in DOMAIN candidates : candidates[i].score >= candidates[j].score

best_score(candidates) == candidates[best(candidates)].score

second_score(candidates) ==
    IF Len(candidates) = 1 THEN 0
    ELSE Max({candidates[j].score : j \in DOMAIN candidates \ {best(candidates)}})

\* C3: after match, a reference on the lexical path with at least one
\* candidate is matched exactly when top1 >= tfidf_auto_match_threshold and
\* top1 - top2 >= tfidf_auto_match_gap, and then by method tfidf with
\* confidence top1 and the citekey of the top candidate; otherwise it is
\* needs_llm when top1 >= tfidf_needs_llm_threshold and needs_review when not.
C3_LexicalTiers ==
    pc = "matched" =>
        \A r \in DOMAIN refs_in :
            (decided_by(r) = "lexical" /\ refs_out[r].candidates # <<>>) =>
                LET candidates == refs_out[r].candidates
                    top1 == best_score(candidates)
                    top2 == second_score(candidates)
                    match == refs_out[r].match
                IN  IF top1 >= params.tfidf_auto_match_threshold
                       /\ top1 - top2 >= params.tfidf_auto_match_gap
                    THEN /\ match.status = "matched"
                         /\ match.method = "tfidf"
                         /\ match.confidence = top1
                         /\ match.citekey = candidates[best(candidates)].citekey
                    ELSE IF top1 >= params.tfidf_needs_llm_threshold
                    THEN match.status = "needs_llm"
                    ELSE match.status = "needs_review"

\* candidates scoring 0.95 and 0.91 leave one reference at needs_llm, and
\* another reference of the same run is matched by its top candidate
C3_Witness ==
    /\ pc = "matched"
    /\ \E r \in DOMAIN refs_in :
           /\ decided_by(r) = "lexical"
           /\ {refs_out[r].candidates[j].score : j \in DOMAIN refs_out[r].candidates}
                  = {95, 91}
           /\ refs_out[r].match.status = "needs_llm"
    /\ \E r \in DOMAIN refs_in :
           /\ decided_by(r) = "lexical"
           /\ Len(refs_out[r].candidates) = 2
           /\ refs_out[r].match.status = "matched"

\* C4: after match, the first of DOI, arXiv id and URL that is present in
\* the reference and found in its reverse index decides the reference: the
\* method is that identifier, a single citekey in the index matches with
\* confidence 0.99, several leave the reference ambiguous with confidence
\* 0.80 and those citekeys as candidates; a reference none of whose
\* identifiers is found goes to the lexical stage.
C4_IdentifierPriority ==
    pc = "matched" =>
        \A r \in DOMAIN refs_in :
            LET match == refs_out[r].match
                candidates == refs_out[r].candidates
            IN  IF decided_by(r) = "lexical"
                THEN match.method \in {"tfidf", "none"}
                ELSE /\ match.method = decided_by(r)
                     /\ [j \in DOMAIN candidates |-> candidates[j].citekey] = hits(r)
                     /\ IF Len(hits(r)) = 1
                        THEN /\ match.status = "matched"
                             /\ match.citekey = hits(r)[1]
                             /\ match.confidence = 99
                        ELSE /\ match.status \in {"needs_llm", "needs_review"}
                             /\ match.citekey = None
                             /\ match.confidence = 80

\* one reference has a DOI and a URL that find different citekeys, another
\* has a DOI that finds nothing and an arXiv id and a URL that are found
C4_Witness ==
    /\ pc = "matched"
    /\ \E r \in DOMAIN refs_in :
           /\ found(library_index.by_doi, ref_doi(r))
           /\ found(library_index.by_url, ref_url(r))
           /\ dict_get(library_index.by_doi, ref_doi(r)) # dict_get(library_index.by_url, ref_url(r))
           /\ refs_out[r].match.method = "doi"
    /\ \E r \in DOMAIN refs_in :
           /\ truthy(ref_doi(r))
           /\ ~found(library_index.by_doi, ref_doi(r))
           /\ found(library_index.by_arxiv, ref_arxiv(r))
           /\ found(library_index.by_url, ref_url(r))
           /\ refs_out[r].match.method = "arxiv"

\* what match records for a reference it finds nothing for
is_unmatched(out) ==
    /\ out.match.status = "unmatched"
    /\ out.match.method = "none"
    /\ out.match.confidence = 0
    /\ out.candidates = <<>>

\* C7: after match against a library without entries every reference is
\* unmatched with no candidates, method none and confidence 0.0; so is every
\* reference on the lexical path for which no candidate is retrieved, and
\* none is retrieved when top_k is 0.
C7_NoCandidatesUnmatched ==
    pc = "matched" =>
        \A r \in DOMAIN refs_in :
            /\ entries = {} => is_unmatched(refs_out[r])
            /\ (decided_by(r) = "lexical" /\ refs_out[r].candidates = <<>>)
                   => is_unmatched(refs_out[r])
            /\ (decided_by(r) = "lexical" /\ params.top_k = 0)
                   => is_unmatched(refs_out[r])

\* an empty library leaves a reference that carries identifiers unmatched
C7_Witness ==
    /\ pc = "matched"
    /\ library_data = <<>>
    /\ \E r \in DOMAIN refs_in : truthy(ref_doi(r)) /\ is_unmatched(refs_out[r])

(***************************************************************************)
(* Properties of apply-decisions.  before is the file the command read,    *)
(* decisions the list it was given, match_result the object it worked on.  *)
(***************************************************************************)
\* the reference id a decision names
named(d) == strip(or_empty(d.ref_id), Whitespace)

\* decision k names reference i of the file: the first with that id
naming(i, k) ==
    /\ decisions[k].is_dict
    /\ named(decisions[k]) # <<>>
    /\ strip(or_empty(before.refs[i].ref_id), Whitespace) = named(decisions[k])
    /\ \A j \in 1..(i - 1) :
           strip(or_empty(before.refs[j].ref_id), Whitespace) # named(decisions[k])

\* decision k is the last of the list that names reference i
last_naming(i, k) ==
    naming(i, k) /\ \A k2 \in DOMAIN decisions : k2 > k => ~naming(i, k2)

\* the candidates of reference i that carry citekey
candidates_with(i, citekey) ==
    {j \in DOMAIN before.refs[i].candidates :
        strip(or_empty(before.refs[i].candidates[j].citekey), Whitespace) = citekey}

\* decision k chooses, for a reference it names, a citekey that is none of
\* the reference's candidates
offending(k) ==
    /\ decision_citekey(decisions[k]) # None
    /\ \E i \in DOMAIN before.refs :
           naming(i, k) /\ candidates_with(i, decision_citekey(decisions[k])) = {}

\* C5: when a decision of the list names a reference and has a citekey
\* (not null, and after stripping neither empty nor the word null) that is
\* not among the candidates recorded for that reference, apply_llm_decisions
\* raises and the command writes no match result file.
C5_UnknownCitekeyRaises ==
    (pc \in {"applied", "raised"} /\ \E k \in DOMAIN decisions : offending(k)) =>
        /\ pc = "raised"
        /\ ~written
        /\ match_file = before

\* the second decision of a list raises after the first changed a record
C5_Witness ==
    /\ pc = "raised"
    /\ Len(decisions) = 2
    /\ offending(2)
    /\ match_result.refs # before.refs
    /\ match_file = before

\* the counts of a list of records by status
tally(refs) ==
    [total |-> Len(refs),
     matched |-> Cardinality({i \in DOMAIN refs : refs[i].match.status = "matched"}),
     needs_llm |-> Cardinality({i \in DOMAIN refs : refs[i].match.status = "needs_llm"}),
     needs_review |->
         Cardinality({i \in DOMAIN refs : refs[i].match.status = "needs_review"}),
     unmatched |-> Cardinality({i \in DOMAIN refs : refs[i].match.status = "unmatched"})]

\* C6: after match and after every apply-decisions that returns, stats is
\* the tally of refs by status, total is the number of records, and the
\* four status counts sum to total; so it is in the file the command wrote.
C6_StatsRecomputed ==
    /\ pc \in {"matched", "applied"} =>
           /\ match_result.stats = tally(match_result.refs)
           /\ match_result.stats.matched + match_result.stats.needs_llm
                  + match_result.stats.needs_review + match_result.stats.unmatched
                  = match_result.stats.total
    /\ written => match_file.stats = tally(match_file.refs)

\* decisions changed the status of a record, and with it the stats
C6_Witness ==
    /\ pc = "applied"
    /\ match_result.stats # before.stats
    /\ match_result.stats.unmatched > before.stats.unmatched

\* C8: in every record, of the object a command works on and of the file,
\* match.citekey and match.itemKey are null unless the status is matched.
C8_KeysOnlyWhenMatched ==
    /\ \A i \in DOMAIN match_result.refs :
           match_result.refs[i].match.status # "matched" =>
               /\ match_result.refs[i].match.citekey = None
               /\ match_result.refs[i].match.itemKey = None
    /\ \A i \in DOMAIN match_file.refs :
           match_file.refs[i].match.status # "matched" =>
               /\ match_file.refs[i].match.citekey = None
               /\ match_file.refs[i].match.itemKey = None

\* a record that was matched, with citekey and itemKey, is unmatched after
\* a decision
C8_Witness ==
    /\ pc = "applied"
    /\ \E i \in DOMAIN before.refs :
           /\ before.refs[i].match.status = "matched"
           /\ before.refs[i].match.citekey # None
           /\ before.refs[i].match.itemKey # None
           /\ match_result.refs[i].match.status = "unmatched"

RECURSIVE confidence_after(_, _)
\* the confidence of record i after the first k decisions of the list
confidence_after(i, k) ==
    IF k = 0 THEN before.refs[i].match.confidence
    ELSE IF ~naming(i, k) THEN confidence_after(i, k - 1)
    ELSE IF decisions[k].confidence # <<>> THEN decisions[k].confidence[1]
    ELSE IF decision_citekey(decisions[k]) = None THEN 0
    ELSE confidence_after(i, k - 1)

\* C9: after an apply-decisions that returns, the record whose last
\* decision chooses one of its candidates is matched by method llm with the
\* decision's citekey, the itemKey of the first candidate with that citekey
\* (null when the candidate has none), and the decision's confidence or,
\* when the decision gives none, the confidence the record had before it.
C9_DecisionMatches ==
    pc = "applied" =>
        \A i \in DOMAIN before.refs : \A k \in DOMAIN decisions :
            LET citekey == decision_citekey(decisions[k])
                match == match_result.refs[i].match
            IN  (last_naming(i, k) /\ citekey # None
                 /\ candidates_with(i, citekey) # {}) =>
                    /\ match.status = "matched"
                    /\ match.method = "llm"
                    /\ match.citekey = citekey
                    /\ \A j \in candidates_with(i, citekey) :
                           (\A j2 \in candidates_with(i, citekey) : j <= j2) =>
                               match.itemKey
                                   = or_none(or_empty(before.refs[i].candidates[j].itemKey))
                    /\ match.confidence
                           = IF decisions[k].confidence # <<>>
                             THEN decisions[k].confidence[1]
                             ELSE confidence_after(i, k - 1)

\* one decision gives a confidence and a candidate with an itemKey, another
\* gives no confidence for a record that had one and whose candidate has no
\* itemKey
C9_Witness ==
    /\ pc = "applied"
    /\ \E i \in DOMAIN before.refs : \E k \in DOMAIN decisions :
           /\ last_naming(i, k)
           /\ decisions[k].confidence # <<>>
           /\ before.refs[i].match.status # "matched"
           /\ match_result.refs[i].match.status = "matched"
           /\ match_result.refs[i].match.itemKey # None
           /\ match_result.refs[i].match.confidence # before.refs[i].match.confidence
    /\ \E i \in DOMAIN before.refs : \E k \in DOMAIN decisions :
           /\ last_naming(i, k)
           /\ decisions[k].confidence = <<>>
           /\ before.refs[i].match.confidence > 0
           /\ match_result.refs[i].match.method = "llm"
           /\ match_result.refs[i].match.status = "matched"
           /\ match_result.refs[i].match.itemKey = None

\* C10: after an apply-decisions that returns, the record whose last
\* decision has no citekey (null, or after stripping empty or the word
\* null) is unmatched by method llm with citekey and itemKey null, whatever
\* its status was and whatever its candidates are.
C10_NullDecisionUnmatches ==
    pc = "applied" =>
        \A i \in DOMAIN before.refs : \A k \in DOMAIN decisions :
            (last_naming(i, k) /\ decision_citekey(decisions[k]) = None) =>
                /\ match_result.refs[i].match.status = "unmatched"
                /\ match_result.refs[i].match.method = "llm"
                /\ match_result.refs[i].match.citekey = None
                /\ match_result.refs[i].match.itemKey = None

\* a record matched by identifier loses its match to a decision whose
\* citekey is the word null, which is none of the record's candidates
C10_Witness ==
    /\ pc = "applied"
    /\ \E i \in DOMAIN before.refs : \E k \in DOMAIN decisions :
           /\ last_naming(i, k)
           /\ decisions[k].citekey # None
           /\ decision_citekey(decisions[k]) = None
           /\ before.refs[i].match.status = "matched"
           /\ before.refs[i].match.method = "doi"
           /\ before.refs[i].candidates # <<>>
           /\ match_result.refs[i].match.status = "unmatched"
           /\ match_result.refs[i].match.method = "llm"

\* decision k names a reference id that no record of the file carries
unknown(k) ==
    /\ decisions[k].is_dict
    /\ named(decisions[k]) # <<>>
    /\ \A i \in DOMAIN before.refs :
           strip(or_empty(before.refs[i].ref_id), Whitespace) # named(decisions[k])

\* the number of times x occurs in the list seq
occurrences(seq, x) == Cardinality({j \in DOMAIN seq : seq[j] = x})

\* the warning apply_llm_decisions records for the unknown decision k
not_found_warning(k) ==
    [warning |-> "Decision ref_id not found", ref_id |-> named(decisions[k])]

\* C11: after an apply-decisions that returns, a decision whose ref_id is
\* carried by no record has changed nothing: the records are as many as
\* before, their candidates are the same and a record no decision names is
\* the record it was; meta.warnings holds one more not-found warning for
\* every such decision; and a later decision of the list that names a
\* record is applied to it.  The result is the file the command wrote.
C11_UnknownRefSkipped ==
    pc = "applied" =>
        /\ Len(match_result.refs) = Len(before.refs)
        /\ \A i \in DOMAIN before.refs :
               /\ match_result.refs[i].candidates = before.refs[i].candidates
               /\ (\A k \in DOMAIN decisions : ~naming(i, k)) =>
                      match_result.refs[i] = before.refs[i]
        /\ \A k \in DOMAIN decisions : unknown(k) =>
               /\ occurrences(match_result.meta.warnings, not_found_warning(k))
                      = occurrences(before.meta.warnings, not_found_warning(k))
                        + Cardinality({k2 \in DOMAIN decisions :
                                           unknown(k2) /\ named(decisions[k2]) = named(decisions[k])})
               /\ \A k2 \in DOMAIN decisions : \A i \in DOMAIN before.refs :
                      (k2 > k /\ last_naming(i, k2)) =>
                          /\ match_result.refs[i].match.method = "llm"
                          /\ match_result.refs[i].match.status
                                 = IF decision_citekey(decisions[k2]) = None
                                   THEN "unmatched" ELSE "matched"
        /\ match_file = match_result

\* the first decision of a list names no record, the second changes one
C11_Witness ==
    /\ pc = "applied"
    /\ Len(decisions) = 2
    /\ unknown(1)
    /\ \E i \in DOMAIN before.refs :
           /\ last_naming(i, 2)
           /\ match_result.refs[i].match # before.refs[i].match
    /\ match_result.meta.warnings # before.meta.warnings

(***************************************************************************)
(* Properties of the library index the match command built                 *)
(***************************************************************************)
\* entry i is the first item of the export that carries its citation key
first_occurrence(i) ==
    \A j \in entries : j < i => entry(j).citekey # entry(i).citekey

\* no citekey is listed twice under one key of the reverse index d
listed_once(d) ==
    \A n \in DOMAIN d : \A a, b \in DOMAIN d[n].val :
        d[n].val[a] = d[n].val[b] => a = b

\* C12: in the index the match command built, records[citekey] is the
\* summary of the first item of the export that carries the citekey, and an
\* item repeating a citekey adds nothing to by_doi, by_arxiv and by_url: no
\* citekey is listed twice under one identifier.
C12_FirstOccurrenceWins ==
    pc = "matched" =>
        /\ \A i \in entries :
               first_occurrence(i) =>
                   dict_get(library_index.records, entry(i).citekey) = entry(i)
        /\ listed_once(library_index.by_doi)
        /\ listed_once(library_index.by_arxiv)
        /\ listed_once(library_index.by_url)

(***************************************************************************)
(* Properties of the load of refs_extracted.json by the match command      *)
(***************************************************************************)
\* the document has no top-level references list: it is no object, or an
\* object with none of the keys refs, references and items
lacks_refs ==
    \/ refs_document.t # "dict"
    \/ \A k \in {"refs", "references", "items"} : ~dict_has(refs_document.v, k)

\* the warnings of the match result the command made
result_warnings == match_result.meta.warnings

raw_entries ==
    IF refs_document.t = "dict"
       /\ _first_present(refs_document.v, <<"refs", "references", "items">>).t = "list"
    THEN _first_present(refs_document.v, <<"refs", "references", "items">>).v
    ELSE <<>>

\* the warnings of the result that report a dropped entry
drop_warnings ==
    {j \in DOMAIN result_warnings :
        result_warnings[j].warning \in {"Skipped non-object ref entry",
                                        "Skipped ref with no raw_text"}}

\* C14: the match command returns for every document, and meta.warnings of
\* its result holds one warning for every entry of the references list that
\* did not become a Reference.
C14_DroppedEntriesWarned ==
    pc = "matched" =>
        /\ Len(refs_extracted.refs) <= Len(raw_entries)
        /\ Cardinality(drop_warnings) = Len(raw_entries) - Len(refs_extracted.refs)

\* the entry becomes a Reference: a string that is not blank, or an object
\* whose text is not blank
kept(e) ==
    \/ e.t = "str" /\ strip(e.v, Whitespace) # <<>>
    \/ e.t = "dict" /\ str_strip(raw_text_of(e.v)) # <<>>

\* the entries of the references list that become References, in order
kept_entries == SelectSeq(raw_entries, kept)

\* the integers the line keys of the entry e give, -1 for a missing one
source_start(e) == IF e.t = "dict" THEN coerce_int(line_values(e.v)[1], -1) ELSE -1

source_end(e) == IF e.t = "dict" THEN coerce_int(line_values(e.v)[2], -1) ELSE -1

\* the source range of the entry is inverted
inverted(e) ==
    source_start(e) >= 0 /\ source_end(e) >= 0 /\ source_end(e) < source_start(e)

\* C15 as claimed: every Reference the load produces has
\* line_end >= line_start, whatever the source gives for the two values.
C15_RangeOrdered ==
    pc = "matched" =>
        \A i \in DOMAIN refs_extracted.refs :
            refs_extracted.refs[i].line_end >= refs_extracted.refs[i].line_start

\* C15 as amended: every Reference the load produces whose line_start and
\* line_end are both known (>= 0) has line_end >= line_start; a source range
\* of two known values that is inverted is swapped and a warning with the
\* two values is in meta.warnings; any other source range is kept as given,
\* -1 standing for a missing value, so that a known line_start may come with
\* line_end = -1.
C15_KnownRangeOrdered ==
    pc = "matched" =>
        /\ Len(kept_entries) = Len(refs_extracted.refs)
        /\ \A i \in DOMAIN refs_extracted.refs :
               /\ (refs_extracted.refs[i].line_start >= 0
                   /\ refs_extracted.refs[i].line_end >= 0) =>
                      refs_extracted.refs[i].line_end >= refs_extracted.refs[i].line_start
               /\ inverted(kept_entries[i]) =>
                      /\ refs_extracted.refs[i].line_start = source_end(kept_entries[i])
                      /\ refs_extracted.refs[i].line_end = source_start(kept_entries[i])
                      /\ \E j \in DOMAIN result_warnings :
                             result_warnings[j]
                                 = [warning |-> "Swapped line range",
                                    start |-> source_start(kept_entries[i]),
                                    end |-> source_end(kept_entries[i])]
               /\ ~inverted(kept_entries[i]) =>
                      /\ refs_extracted.refs[i].line_start = source_start(kept_entries[i])
                      /\ refs_extracted.refs[i].line_end = source_end(kept_entries[i])

\* a document with an entry whose range is inverted and an entry that gives
\* a start and no end
C15_Witness ==
    /\ pc = "matched"
    /\ \E i \in DOMAIN refs_extracted.refs :
           /\ inverted(kept_entries[i])
           /\ refs_extracted.refs[i].line_end > refs_extracted.refs[i].line_start
    /\ \E i \in DOMAIN refs_extracted.refs :
           /\ refs_extracted.refs[i].line_start >= 0
           /\ refs_extracted.refs[i].line_end = -1

\* C16: the match result holds one record for every Reference the load
\* kept, in the order of the references list: the i-th record carries the
\* ref_id and the raw_text of the i-th Reference, and stats.total is the
\* number of records.
C16_OneRecordPerReference ==
    pc = "matched" =>
        /\ Len(match_result.refs) = Len(refs_extracted.refs)
        /\ Len(match_result.refs) = Len(kept_entries)
        /\ match_result.stats.total = Len(match_result.refs)
        /\ \A i \in DOMAIN refs_extracted.refs :
               /\ match_result.refs[i].ref_id = refs_extracted.refs[i].ref_id
               /\ match_result.refs[i].raw_text = refs_extracted.refs[i].raw_text

\* two entries with different ids and texts are kept, and the library has
\* records to match them against
C16_Witness ==
    /\ pc = "matched"
    /\ Len(raw_entries) = 2
    /\ Len(match_result.refs) = 2
    /\ match_result.refs[1].ref_id # match_result.refs[2].ref_id
    /\ match_result.refs[1].raw_text # match_result.refs[2].raw_text
    /\ raw_entries[1].t = "dict"
    /\ match_result.refs[1].ref_id = str_strip(_first_present(raw_entries[1].v,
                                                   <<"ref_id", "id", "refId", "number">>))
    /\ library_index.records # <<>>

\* the warning of the index for the key and list at position n of the
\* reverse index d
collision_warning(kind, d, n) ==
    [warning |-> "Duplicate index", kind |-> kind, key |-> d[n].key, citekeys |-> d[n].val]

\* every key of d with more than one citekey has its warning in the index
\* and in the match result
collisions_surfaced(kind, d) ==
    \A n \in DOMAIN d :
        Len(d[n].val) > 1 =>
            /\ occurrences(library_index.warnings, collision_warning(kind, d, n)) = 1
            /\ occurrences(result_warnings, collision_warning(kind, d, n)) = 1

\* the reverse index d lists citekey under key, when there is a key
keeps(d, key, citekey) ==
    truthy(key) =>
        \E n \in DOMAIN d :
            d[n].key = key /\ \E a \in DOMAIN d[n].val : d[n].val[a] = citekey

\* C17: after the match command built the index, every key of by_doi,
\* by_arxiv and by_url that maps to more than one citekey has a collision
\* warning naming the key and its citekeys in the warnings of the index, and
\* the warning is in meta.warnings of the match result; the index keeps under
\* the key the citekey of every entry that has the identifier.
C17_CollisionsWarned ==
    pc = "matched" =>
        /\ collisions_surfaced("DOI", library_index.by_doi)
        /\ collisions_surfaced("arXiv", library_index.by_arxiv)
        /\ collisions_surfaced("URL", library_index.by_url)
        /\ \A i \in entries : \A e \in {entry(i)} :
               /\ \A doi \in {normalize_doi(e.doi)} :
                      keeps(library_index.by_doi, doi, e.citekey)
               /\ \A url \in {normalize_url(e.url)} :
                      keeps(library_index.by_url, url, e.citekey)
               /\ \A arxiv \in {item_arxiv_id(e, library_data[i])} :
                      keeps(library_index.by_arxiv, arxiv, e.citekey)

\* two entries with different citekeys share a DOI, and the warning naming
\* the DOI and the two citekeys is the one warning of the match result
C17_Witness ==
    /\ pc = "matched"
    /\ \E n \in DOMAIN library_index.by_doi :
           /\ Len(library_index.by_doi[n].val) = 2
           /\ library_index.by_doi[n].val[1] # library_index.by_doi[n].val[2]
           /\ occurrences(result_warnings,
                          collision_warning("DOI", library_index.by_doi, n)) = 1
    /\ Len(result_warnings) = 1
    /\ match_result.refs # <<>>

(***************************************************************************)
(* Properties of the lexical path.                                         *)
(***************************************************************************)
\* candidate a stands before candidate b in the emitted order
stands_before(a, b) ==
    \/ a.score > b.score
    \/ a.score = b.score /\ str_less(b.citekey, a.citekey)

\* the score of the candidate at position n, 0.0 when there is none
score_at(candidates, n) == IF Len(candidates) >= n THEN candidates[n].score ELSE 0

\* C19: after match, the candidates of a reference on the lexical path are
\* in descending order of boosted score, and candidates of equal score are in
\* descending order of citekey; the first two candidates of that order are
\* top1 and top2: the confidence is the score of the first, the reference is
\* matched exactly when the first reaches tfidf_auto_match_threshold and leads
\* the second by tfidf_auto_match_gap, and then to the citekey of the first.
C19_CandidatesOrdered ==
    pc = "matched" =>
        \A r \in DOMAIN refs_in :
            (decided_by(r) = "lexical" /\ refs_out[r].candidates # <<>>) =>
                /\ \A j, k \in DOMAIN refs_out[r].candidates :
                       j < k => stands_before(refs_out[r].candidates[j],
                                              refs_out[r].candidates[k])
                /\ refs_out[r].match.confidence = score_at(refs_out[r].candidates, 1)
                /\ refs_out[r].match.status = "matched"
                       <=> /\ score_at(refs_out[r].candidates, 1)
                                  >= params.tfidf_auto_match_threshold
                           /\ score_at(refs_out[r].candidates, 1)
                                  - score_at(refs_out[r].candidates, 2)
                                  >= params.tfidf_auto_match_gap
                /\ refs_out[r].match.status = "matched"
                       => refs_out[r].match.citekey = refs_out[r].candidates[1].citekey

\* two candidates of equal score come out as wu before li although the
\* library lists li first, and the reference is left to the LLM because the
\* first does not lead the second
C19_Witness ==
    /\ pc = "matched"
    /\ \E r \in DOMAIN refs_in :
           /\ decided_by(r) = "lexical"
           /\ Len(refs_out[r].candidates) = 2
           /\ refs_out[r].candidates[1].score = 95
           /\ refs_out[r].candidates[2].score = 95
           /\ refs_out[r].candidates[1].citekey = ck_wu
           /\ refs_out[r].candidates[2].citekey = ck_li
           /\ entry(1).citekey = ck_li
           /\ entry(2).citekey = ck_wu
           /\ refs_out[r].match.status = "needs_llm"

\* the library record a candidate was made from
record_of(cand) == dict_get(library_index.records, cand.citekey)

\* the similarity the retrieval index gave reference r for a candidate
similarity_of(r, cand) ==
    similarity[<<_select_query_text(refs_in[r]), or_empty(record_of(cand).title)>>]

\* the parsed year of reference r and the year of the record are both
\* present and are the same string
same_year(r, cand) ==
    /\ refs_in[r].parsed.year # None
    /\ record_of(cand).year # None
    /\ refs_in[r].parsed.year = record_of(cand).year

\* the trimmed, lower-cased author_guess of reference r is not empty and
\* occurs in the lower-cased authors of the record, joined by spaces
author_named(r, cand) ==
    /\ refs_in[r].parsed.author_guess # None
    /\ lower(strip(refs_in[r].parsed.author_guess, Whitespace)) # <<>>
    /\ contains(lower(join(<<" ">>, record_of(cand).authors)),
                lower(strip(refs_in[r].parsed.author_guess, Whitespace)))

\* C20: after match, the score of every candidate of a reference on the
\* lexical path is its base score, plus year_boost when the parsed year of
\* the reference and the year of the candidate are both present and equal,
\* plus author_boost when the trimmed, lower-cased, non-empty author_guess is
\* a substring of the lower-cased space-joined authors of the candidate; the
\* boosts add up independently and the sum is not clamped at 1.0.
C20_BoostsAdditive ==
    pc = "matched" =>
        \A r \in DOMAIN refs_in :
            decided_by(r) = "lexical" =>
                \A n \in DOMAIN refs_out[r].candidates :
                    refs_out[r].candidates[n].score
                        = similarity_of(r, refs_out[r].candidates[n])
                          + (IF same_year(r, refs_out[r].candidates[n])
                             THEN params.year_boost ELSE 0)
                          + (IF author_named(r, refs_out[r].candidates[n])
                             THEN params.author_boost ELSE 0)

\* a candidate of base score 0.95 gets both boosts and scores 1.01, and a
\* candidate of the same reference gets none; another gets the year boost only
C20_Witness ==
    /\ pc = "matched"
    /\ \E r \in DOMAIN refs_in :
           /\ decided_by(r) = "lexical"
           /\ \E n \in DOMAIN refs_out[r].candidates :
                  /\ similarity_of(r, refs_out[r].candidates[n]) = 95
                  /\ same_year(r, refs_out[r].candidates[n])
                  /\ author_named(r, refs_out[r].candidates[n])
                  /\ refs_out[r].candidates[n].score = 101
           /\ \E n \in DOMAIN refs_out[r].candidates :
                  /\ ~same_year(r, refs_out[r].candidates[n])
                  /\ ~author_named(r, refs_out[r].candidates[n])
                  /\ refs_out[r].candidates[n].score
                         = similarity_of(r, refs_out[r].candidates[n])
    /\ \E r \in DOMAIN refs_in :
           /\ decided_by(r) = "lexical"
           /\ \E n \in DOMAIN refs_out[r].candidates :
                  /\ same_year(r, refs_out[r].candidates[n])
                  /\ ~author_named(r, refs_out[r].candidates[n])
                  /\ refs_out[r].candidates[n].score
                         = similarity_of(r, refs_out[r].candidates[n]) + params.year_boost

(***************************************************************************)
(* Properties of the match result across the two commands.                 *)
(***************************************************************************)
\* every matched reference of result is matched to the citekey of one of
\* its own candidates
matched_from_candidates(result) ==
    \A r \in DOMAIN result.refs :
        result.refs[r].match.status = "matched" =>
            \E j \in DOMAIN result.refs[r].candidates :
                result.refs[r].candidates[j].citekey = result.refs[r].match.citekey

\* C21: in the match result that build_initial_match_result returns, and in
\* the one that any apply_llm_decisions call after it returns, every
\* reference whose status is matched has the citekey of one of its own
\* candidates; the same holds of match_result.json whenever it exists.
C21_MatchedFromCandidates ==
    /\ pc \in {"matched", "applied"} => matched_from_candidates(match_result)
    /\ match_file # NoFile => matched_from_candidates(match_file)

\* a second apply-decisions command returned: one reference is matched by a
\* decision that named one of its two candidates, another by the lexical tier
C21_Witness ==
    /\ pc = "applied"
    /\ applies = 2
    /\ \E r \in DOMAIN match_result.refs :
           /\ match_result.refs[r].match.status = "matched"
           /\ match_result.refs[r].match.method = "llm"
           /\ Len(match_result.refs[r].candidates) = 2
    /\ \E r \in DOMAIN match_result.refs :
           /\ match_result.refs[r].match.status = "matched"
           /\ match_result.refs[r].match.method = "tfidf"

\* C22: the record the match command emits for a Reference carries the
\* ref_id, line_start, line_end, raw_text and parsed values of the Reference
\* as load_refs_extracted produced them, a line number of 0 included.
C22_ReferenceUnaltered ==
    pc = "matched" =>
        /\ Len(match_result.refs) = Len(refs_extracted.refs)
        /\ \A i \in DOMAIN refs_extracted.refs :
               /\ match_result.refs[i].ref_id = refs_extracted.refs[i].ref_id
               /\ match_result.refs[i].line_start = refs_extracted.refs[i].line_start
               /\ match_result.refs[i].line_end = refs_extracted.refs[i].line_end
               /\ match_result.refs[i].raw_text = refs_extracted.refs[i].raw_text
               /\ match_result.refs[i].parsed = refs_extracted.refs[i].parsed

\* C23: when apply_llm_decisions raises because a decision's citekey is not
\* among its reference's candidates, the match_result it was given is as it was
\* when the command began: no decision earlier in the list has modified a
\* reference's match, and stats agrees with the statuses of the refs.
C23_NoPartialState ==
    pc = "raised" =>
        /\ match_result = before
        /\ match_result.stats = _recompute_stats(match_result.refs, ZeroStats)

====
